---- MODULE Spec2Model ----
(***************************************************************************)
(* A model of the Validator of headers/validation.h: the strict/lenient    *)
(* reader over an input stream, the constraint monitor, the generator mode *)
(* and the exit-code protocol.                                             *)
(*                                                                         *)
(* A validator process is a record; every member function of the class is  *)
(* an operator from records to records (and a returned value, where the    *)
(* function returns one).  The actions apply these operators.              *)
(*                                                                         *)
(* Scaling.  long long and the words of the random number generator are    *)
(* WordBits wide instead of 64.  std::mt19937_64 is modelled as a periodic *)
(* tape of words that is a function of the seed alone: word i of the tape  *)
(* is digit (i mod TapeLen) of the seed written in base 2^WordBits.  The   *)
(* seeds of the model are multiples of SeedStride, so that from one seed   *)
(* to the next every word of the tape changes.                             *)
(***************************************************************************)
EXTENDS Integers, Sequences, FiniteSets, TLC

VARIABLES v, v2, prog, phase

vars == <<v, v2, prog, phase>>

(***************************************************************************)
(* Bounds of the model.                                                    *)
(***************************************************************************)
WordBits == 4
TapeLen == 3
MaxSeed == 63
MaxProg == 3
MaxIn == 3
MaxPairSeed == 7
SeedStride == 585
LDBL_MAX_10_EXP == 4
MaxDiff == 2

(***************************************************************************)
(* Program constants.  default_seed is 3141592653 (validation.h:113)        *)
(* reduced modulo 64; it names the tape of a validator without a seed.     *)
(***************************************************************************)
ret_AC == 42
ret_WA == 43
default_seed == 13

Pow2(n) == 2 ^ n
WordMod == Pow2(WordBits)
LLONG_MAX == Pow2(WordBits - 1) - 1
LLONG_MIN == 0 - Pow2(WordBits - 1)

Min(a, b) == IF a < b THEN a ELSE b
\* C++ integer division truncates toward zero.
CDiv(a, b) == IF a >= 0 THEN a \div b ELSE 0 - ((0 - a) \div b)
Max(a, b) == IF a > b THEN a ELSE b

(***************************************************************************)
(* Characters are one-character strings, streams are sequences of them.    *)
(***************************************************************************)
SP == " "
NL == "\n"
CR == "\r"
TAB == "\t"

isspace(c) == c \in {SP, NL, CR, TAB}

Digits == <<"0", "1", "2", "3", "4", "5", "6", "7", "8", "9">>
isdigit(c) == \E i \in 1..10 : Digits[i] = c
DigitVal(c) == (CHOOSE i \in 1..10 : Digits[i] = c) - 1

Upper == <<"A", "B", "C", "D", "E", "F", "G", "H", "I", "J", "K", "L", "M",
           "N", "O", "P", "Q", "R", "S", "T", "U", "V", "W", "X", "Y", "Z">>
Lower == <<"a", "b", "c", "d", "e", "f", "g", "h", "i", "j", "k", "l", "m",
           "n", "o", "p", "q", "r", "s", "t", "u", "v", "w", "x", "y", "z">>
LowerOf == [c \in {Upper[i] : i \in 1..26} |-> Lower[CHOOSE i \in 1..26 : Upper[i] = c]]
tolower(c) == IF c \in DOMAIN LowerOf THEN LowerOf[c] ELSE c
isalnum(c) == isdigit(c) \/ \E i \in 1..26 : Lower[i] = tolower(c)

(***************************************************************************)
(* Tags (validation.h:44-84): four compile-time flags.                     *)
(***************************************************************************)
Tag(u, s, i, d) == [unique |-> u, strict |-> s, increasing |-> i, decreasing |-> d]
Arbitrary == Tag(FALSE, FALSE, FALSE, FALSE)
Unique == Tag(TRUE, FALSE, FALSE, FALSE)
Increasing == Tag(FALSE, FALSE, TRUE, FALSE)
Decreasing == Tag(FALSE, FALSE, FALSE, TRUE)
StrictlyIncreasing == Tag(FALSE, TRUE, TRUE, FALSE)
StrictlyDecreasing == Tag(FALSE, TRUE, FALSE, TRUE)
Merge(t1, t2) ==
  Tag(t1.unique \/ t2.unique, t1.strict \/ t2.strict,
      t1.increasing \/ t2.increasing, t1.decreasing \/ t2.decreasing)

(***************************************************************************)
(* The state of a validator process.  seen, last_seen and integers_seen    *)
(* are the function-local statics of validation.h:629-644, one map per     *)
(* value type; a name that is absent maps to the default-constructed       *)
(* value (NoValue for last_seen).  bounds is a map from the logged names.  *)
(***************************************************************************)
Names == {"a", "b"}
NoSeed == 0 - 1
NoValue == <<>>
NoBounds == [n \in {} |-> 0]

\* The empty map of parameter expressions (validation.h:554).
NoParams == [n \in {} |-> 0]

StaticInit ==
  [seen          |-> [n \in Names |-> {}],
   last_seen     |-> [n \in Names |-> NoValue],
   integers_seen |-> [n \in Names |->
                        [seen_here |-> {}, remaining_here |-> <<>>, use_remaining |-> FALSE]],
   last_seen_ld  |-> [n \in Names |-> NoValue],
   seen_str      |-> [n \in Names |-> {}],
   last_seen_str |-> [n \in Names |-> NoValue]]

\* The constructor with the generator seeded from std::random_device, which
\* yields another value in every process, instead of from the seed.
Validator_random_device(ws_, case_, in_, constraints_file_path_, seed, ndebug_) ==
  [seed           |-> seed,
   inp            |-> in_,
   pos            |-> 0,
   eofbit         |-> FALSE,
   ws             |-> ws_,
   case_sensitive |-> case_,
   constraints_file_path |-> constraints_file_path_,
   gen            |-> seed # NoSeed,
   rng            |-> [seed |-> IF prog = <<>> THEN 0 ELSE (2 ^ (WordBits * TapeLen)) - 1,
                       idx |-> 0],
   ndebug         |-> ndebug_,
   out            |-> <<>>,
   flushed        |-> FALSE,
   bounds         |-> NoBounds,
   params         |-> NoParams,
   statics        |-> StaticInit,
   WA_handler     |-> 0,
   handler_calls  |-> <<>>,
   log            |-> [written |-> FALSE, lines |-> NoBounds],
   events         |-> <<>>,
   cerr           |-> <<>>,
   status         |-> "Active",
   exit           |-> 0]

Validator(ws_, case_, in_, constraints_file_path_, seed, ndebug_) ==
  [inp            |-> in_,
   pos            |-> 0,
   eofbit         |-> FALSE,
   ws             |-> ws_,
   case_sensitive |-> case_,
   constraints_file_path |-> constraints_file_path_,
   seed           |-> seed,
   gen            |-> seed # NoSeed,
   rng            |-> [seed |-> IF seed # NoSeed THEN seed ELSE default_seed, idx |-> 0],
   ndebug         |-> ndebug_,
   out            |-> <<>>,
   flushed        |-> FALSE,
   bounds         |-> NoBounds,
   params         |-> NoParams,
   statics        |-> StaticInit,
   WA_handler     |-> 0,
   handler_calls  |-> <<>>,
   log            |-> [written |-> FALSE, lines |-> NoBounds],
   events         |-> <<>>,
   cerr           |-> <<>>,
   status         |-> "Active",
   exit           |-> 0]

Active(x) == x.status = "Active"

(***************************************************************************)
(* Sequencing.  Bind evaluates m once and hands its value to K.  A member  *)
(* function that returns a value yields the pair R(x, r) of the validator  *)
(* after the call and the value; Then and ThenX continue only while the    *)
(* process is alive, which is how exit() and abort() cut a call short.     *)
(***************************************************************************)
Bind(m, K(_)) == CHOOSE r \in {K(u) : u \in {m}} : TRUE

R(x_, r_) == [x |-> x_, r |-> r_]

Then(m, K(_)) == Bind(m, LAMBDA u : IF Active(u.x) THEN K(u) ELSE u)

ThenX(m, K(_)) == Bind(m, LAMBDA y : IF Active(y) THEN K(y) ELSE y)

(***************************************************************************)
(* The input stream: pos characters have been extracted; eofbit is set by  *)
(* an extraction that hits the end of the stream.                          *)
(***************************************************************************)
AtEnd(x) == x.pos >= Len(x.inp)
NextChar(x) == x.inp[x.pos + 1]
Consume(x) == [x EXCEPT !.pos = @ + 1]
SetEof(x) == [x EXCEPT !.eofbit = TRUE]

RECURSIVE WsEnd(_, _)
WsEnd(s, p) == IF p < Len(s) /\ isspace(s[p + 1]) THEN WsEnd(s, p + 1) ELSE p

RECURSIVE TokenEnd(_, _)
TokenEnd(s, p) == IF p < Len(s) /\ ~isspace(s[p + 1]) THEN TokenEnd(s, p + 1) ELSE p

\* in >> std::ws
SkipWs(x) ==
  Bind(WsEnd(x.inp, x.pos),
       LAMBDA e : [x EXCEPT !.pos = e, !.eofbit = @ \/ (e = Len(x.inp))])

(***************************************************************************)
(* Failure: WA (validation.h:1162-1173, 1265-1269) calls the installed     *)
(* handler and exits with ret_WA; an assert that fails aborts unless the   *)
(* build defines NDEBUG.                                                   *)
(***************************************************************************)
\* WA without the call of WA_handler.
WA_skips_handler(x) ==
  [x EXCEPT !.events = Append(@, "WA"),
            !.status = "Exited",
            !.exit = ret_WA]

WA(x) ==
  [x EXCEPT !.handler_calls = Append(@, x.WA_handler),
            !.events = Append(@, "WA"),
            !.status = "Exited",
            !.exit = ret_WA]

check(x, b) == IF b THEN x ELSE WA(x)

abort(x) == [x EXCEPT !.status = "Aborted", !.exit = 134]

assert(x, b) == IF b \/ x.ndebug THEN x ELSE abort(x)

expected(x) == ThenX(assert(x, ~x.gen), LAMBDA y : WA(y))

\* expected(exp, s) with the two texts of its message on std::cerr.
expected_found(x, exp, s) == expected([x EXCEPT !.cerr = Append(@, <<exp, s>>)])

set_WA_handler(x, f) == [x EXCEPT !.WA_handler = f]

(***************************************************************************)
(* space, newline (validation.h:584-627).                                  *)
(***************************************************************************)
space(x) ==
  IF x.gen THEN [x EXCEPT !.out = Append(@, SP)]
  ELSE IF ~x.ws THEN x
  ELSE IF AtEnd(x) \/ x.eofbit THEN check(SetEof(x), FALSE)
  ELSE IF NextChar(x) # SP
    THEN expected_found(Consume(x), "space",
                        IF NextChar(x) \in {NL, CR} THEN "newline" ELSE NextChar(x))
  ELSE Consume(x)

\* newline that takes '\r' for a line ending.
newline_accepts_CR(x) ==
  IF x.gen THEN [x EXCEPT !.out = Append(@, NL)]
  ELSE IF ~x.ws THEN x
  ELSE IF AtEnd(x) \/ x.eofbit THEN check(SetEof(x), FALSE)
  ELSE IF NextChar(x) \notin {NL, CR}
    THEN expected_found(Consume(x), "newline", NextChar(x))
  ELSE Consume(x)

newline(x) ==
  IF x.gen THEN [x EXCEPT !.out = Append(@, NL)]
  ELSE IF ~x.ws THEN x
  ELSE IF AtEnd(x) \/ x.eofbit THEN check(SetEof(x), FALSE)
  ELSE IF NextChar(x) # NL
    THEN expected_found(Consume(x), "newline",
                        IF NextChar(x) = CR THEN "DOS line ending (\\r)" ELSE NextChar(x))
  ELSE Consume(x)

\* separator that takes every separator for Space.
separator_always_space(x, s) == space(x)

separator(x, s) == IF s = "Space" THEN space(x) ELSE newline(x)

(***************************************************************************)
(* eof, AC, write_constraints, eof_and_AC and the destructor               *)
(* (validation.h:576-582, 1150-1154, 1308-1332, 1356-1370).                *)
(***************************************************************************)
\* eof without the in >> std::ws of the lenient mode.
eof_keeps_whitespace(x) ==
  IF x.gen THEN [x EXCEPT !.flushed = TRUE, !.events = Append(@, "flush")]
  ELSE IF x.eofbit THEN [x EXCEPT !.events = Append(@, "eof")]
  ELSE IF AtEnd(x) THEN [x EXCEPT !.eofbit = TRUE, !.events = Append(@, "eof")]
  ELSE expected_found(Consume(x), "EOF", IF NextChar(x) = NL THEN "newline" ELSE NextChar(x))

eof(x) ==
  IF x.gen THEN [x EXCEPT !.flushed = TRUE, !.events = Append(@, "flush")]
  ELSE IF x.eofbit THEN [x EXCEPT !.events = Append(@, "eof")]
  ELSE Bind(IF ~x.ws THEN SkipWs(x) ELSE x,
            LAMBDA y : IF AtEnd(y)
                         THEN [y EXCEPT !.eofbit = TRUE, !.events = Append(@, "eof")]
                         ELSE expected_found(Consume(y), "EOF",
                                             IF NextChar(y) = NL THEN "newline"
                                             ELSE NextChar(y)))

\* AC that exits in generate mode too.
AC_exits_in_gen(x) ==
  [x EXCEPT !.events = Append(@, "AC"), !.status = "Exited", !.exit = ret_AC]

AC(x) ==
  IF x.gen THEN x
  ELSE [x EXCEPT !.events = Append(@, "AC"), !.status = "Exited", !.exit = ret_AC]

write_constraints(x) ==
  IF ~x.constraints_file_path THEN x
  ELSE [x EXCEPT !.log = [written |-> TRUE, lines |-> x.bounds],
                 !.events = Append(@, "write_constraints")]

eof_and_AC(x) == ThenX(eof(x), LAMBDA a : AC(a))

\* A destructor that returns leaves the object destroyed and the process alive.
Destroyed(x) == [x EXCEPT !.status = "Destroyed"]

\* The destructor with AC() before write_constraints().
Destructor_AC_first(x) ==
  ThenX(eof(x), LAMBDA a :
    ThenX(AC(a), LAMBDA b :
      ThenX(write_constraints(b), LAMBDA c : Destroyed(c))))

Destructor(x) ==
  ThenX(eof(x), LAMBDA a :
    ThenX(write_constraints(a), LAMBDA b :
      ThenX(AC(b), LAMBDA c : Destroyed(c))))

(***************************************************************************)
(* get_string (validation.h:1293-1306): in strict mode the token must      *)
(* start at the next byte; in >> s skips leading whitespace only under     *)
(* skipws and sets eofbit when the token runs to the end of the stream.    *)
(***************************************************************************)
ExtractToken(x, b, e) ==
  IF x.eofbit \/ e = b
    THEN R(expected([x EXCEPT !.pos = b, !.eofbit = TRUE]), <<>>)
    ELSE R([x EXCEPT !.pos = e, !.eofbit = (e = Len(x.inp))], SubSeq(x.inp, b + 1, e))

get_string(x) ==
  IF x.ws /\ ~x.eofbit /\ ~AtEnd(x) /\ isspace(NextChar(x))
    THEN R(expected(x), <<>>)
  ELSE IF x.ws /\ (x.eofbit \/ AtEnd(x))
    THEN R(expected(SetEof(x)), <<>>)
  ELSE Bind(IF x.ws THEN x.pos ELSE WsEnd(x.inp, x.pos),
            LAMBDA b : Bind(TokenEnd(x.inp, b), LAMBDA e : ExtractToken(x, b, e)))

(***************************************************************************)
(* Integers as text: std::from_chars and operator<<(long long).            *)
(***************************************************************************)
RECURSIVE DigitsEnd(_, _)
DigitsEnd(s, i) == IF i <= Len(s) /\ isdigit(s[i]) THEN DigitsEnd(s, i + 1) ELSE i

RECURSIVE DigitsValue(_, _, _)
DigitsValue(s, i, e) ==
  IF e <= i THEN 0 ELSE 10 * DigitsValue(s, i, e - 1) + DigitVal(s[e - 1])

\* ptr is the number of characters of s that were consumed.
FromDigits(b, e, val) ==
  IF e = b THEN [ptr |-> 0, ec |-> "invalid_argument", value |-> 0]
  ELSE IF val < LLONG_MIN \/ val > LLONG_MAX
    THEN [ptr |-> e - 1, ec |-> "result_out_of_range", value |-> 0]
  ELSE [ptr |-> e - 1, ec |-> "ok", value |-> val]

from_chars(s) ==
  Bind(Len(s) >= 1 /\ s[1] = "-", LAMBDA neg :
    Bind(IF neg THEN 2 ELSE 1, LAMBDA b :
      Bind(DigitsEnd(s, b), LAMBDA e :
        Bind(DigitsValue(s, b, e), LAMBDA mag :
          FromDigits(b, e, IF neg THEN 0 - mag ELSE mag)))))

RECURSIVE NatChars(_)
NatChars(n) ==
  IF n < 10 THEN <<Digits[n + 1]>>
  ELSE Append(NatChars(n \div 10), Digits[(n % 10) + 1])

IntChars(n) == IF n < 0 THEN <<"-">> \o NatChars(0 - n) ELSE NatChars(n)

\* The checks of read_integer(name) without those for a leading 0.
ParsedInteger_leading_zero(x, s, fc) ==
  IF s = <<>> THEN R(WA(x), 0)
  ELSE IF fc.ptr # Len(s) \/ fc.ec # "ok" THEN R(WA(x), 0)
  ELSE IF fc.value < 0 /\ Len(s) <= 1 THEN R(WA(x), 0)
  ELSE R(x, fc.value)

\* The checks of the private read_integer(name), validation.h:1214-1239.
ParsedInteger(x, s, fc) ==
  IF s = <<>> THEN R(WA(x), 0)
  ELSE IF fc.ptr # Len(s) \/ fc.ec # "ok" THEN R(WA(x), 0)
  ELSE IF fc.value = 0 /\ Len(s) # 1 THEN R(WA(x), 0)
  ELSE IF fc.value > 0 /\ s[1] = "0" THEN R(WA(x), 0)
  ELSE IF fc.value < 0 /\ Len(s) <= 1 THEN R(WA(x), 0)
  ELSE IF fc.value < 0 /\ s[2] = "0" THEN R(WA(x), 0)
  ELSE R(x, fc.value)

\* The private read_integer(name) of validation.h:1211-1240.
read_integer_token(x) ==
  Then(get_string(x), LAMBDA g :
    Bind(from_chars(g.r), LAMBDA fc : ParsedInteger(g.x, g.r, fc)))

(***************************************************************************)
(* The constraint monitor: log_constraint (validation.h:1183-1208) and     *)
(* check_number (validation.h:652-685).                                    *)
(***************************************************************************)
Bounds(name_, min_, max_, low_, high_) ==
  [name |-> name_, min |-> min_, max |-> max_, low |-> low_, high |-> high_,
   has_min |-> FALSE, has_max |-> FALSE]

\* has_min and has_max set when val is the observed extreme instead of the
\* declared bound.
UpdateBounds_flags_on_extremes(done, low, high, val) ==
  [done EXCEPT !.min = IF val < done.min THEN val ELSE @,
               !.low = IF val < done.min THEN low ELSE @,
               !.max = IF val > done.max THEN val ELSE @,
               !.high = IF val > done.max THEN high ELSE @,
               !.has_min = @ \/ (val <= done.min),
               !.has_max = @ \/ (val >= done.max)]

UpdateBounds(done, low, high, val) ==
  [done EXCEPT !.min = IF val < done.min THEN val ELSE @,
               !.low = IF val < done.min THEN low ELSE @,
               !.max = IF val > done.max THEN val ELSE @,
               !.high = IF val > done.max THEN high ELSE @,
               !.has_min = @ \/ (val = low),
               !.has_max = @ \/ (val = high)]

log_constraint(x, name, low, high, val) ==
  Bind(IF name \notin DOMAIN x.bounds THEN Bounds(name, val, val, low, high)
       ELSE x.bounds[name],
       LAMBDA done :
         [x EXCEPT !.bounds = [n \in (DOMAIN x.bounds) \cup {name} |->
                                 IF n = name THEN UpdateBounds(done, low, high, val)
                                 ELSE x.bounds[n]]])

\* The else-branch of check_number, validation.h:672-683.
check_last_seen(y, name, val, tag) ==
  Bind(y.statics.last_seen[name], LAMBDA slot :
    Bind([y EXCEPT !.statics.last_seen[name] = <<val>>], LAMBDA z :
      IF slot = NoValue THEN z
      ELSE ThenX(IF tag.increasing THEN check(z, val >= slot[1]) ELSE z, LAMBDA c1 :
             ThenX(IF tag.decreasing THEN check(c1, val <= slot[1]) ELSE c1, LAMBDA c2 :
               IF tag.strict THEN check(c2, val # slot[1]) ELSE c2))))

\* check_number whose Unique branch inserts the value without the check.
check_number_unchecked_unique(x, name, low, high, val, tag) ==
  IF val < low \/ val > high THEN expected(x)
  ELSE Bind(log_constraint(x, name, low, high, val), LAMBDA y :
         IF tag.unique
           THEN [y EXCEPT !.statics.seen[name] = @ \cup {val}]
           ELSE check_last_seen(y, name, val, tag))

check_number(x, name, low, high, val, tag) ==
  IF val < low \/ val > high THEN expected(x)
  ELSE Bind(log_constraint(x, name, low, high, val), LAMBDA y :
         IF tag.unique
           THEN check([y EXCEPT !.statics.seen[name] = @ \cup {val}],
                      val \notin y.statics.seen[name])
           ELSE check_last_seen(y, name, val, tag))

\* reset that erases nothing.
reset_keeps_state(x, name) == x

reset(x, name) ==
  [x EXCEPT !.statics.seen[name] = {},
            !.statics.last_seen[name] = NoValue,
            !.statics.integers_seen[name] =
               [seen_here |-> {}, remaining_here |-> <<>>, use_remaining |-> FALSE]]

(***************************************************************************)
(* Random numbers.  bits64 (validation.h:115-119) returns the next word of *)
(* the tape of the seed; countl_zero (validation.h:91-101) counts the      *)
(* leading zero bits of a word.                                            *)
(***************************************************************************)
bits64(r) == (r.seed \div Pow2(WordBits * r.idx)) % WordMod

Advance(r) == [r EXCEPT !.idx = (@ + 1) % TapeLen]

RECURSIVE BitLen(_)
BitLen(u) == IF u = 0 THEN 0 ELSE 1 + BitLen(u \div 2)

countl_zero(u) == WordBits - BitLen(u)

ToUnsigned(n) == n % WordMod
ToSigned(u) == IF u > LLONG_MAX THEN u - WordMod ELSE u

(***************************************************************************)
(* UniformGenerator for long long (validation.h:186-214): rejection        *)
(* sampling on a word shifted to the width of high - low.  The result      *)
(* record carries st = "ok", "abort" (a failed assert) or "hung" (the      *)
(* periodic tape holds no accepted word, so the loop never ends).          *)
(***************************************************************************)
RECURSIVE UniformLoop(_, _, _, _)
UniformLoop(d, shifts, r, fuel) ==
  Bind(bits64(r) \div Pow2(shifts), LAMBDA res :
    IF res <= d THEN [st |-> "ok", r |-> res, rng |-> Advance(r)]
    ELSE IF fuel = 0 THEN [st |-> "hung", r |-> 0, rng |-> r]
    ELSE UniformLoop(d, shifts, Advance(r), fuel - 1))

UniformGenerator(low, high, r, ndebug) ==
  IF low = high THEN [st |-> "ok", r |-> low, rng |-> r]
  ELSE IF ~(low < high) /\ ~ndebug THEN [st |-> "abort", r |-> 0, rng |-> r]
  ELSE Bind((ToUnsigned(high) - ToUnsigned(low)) % WordMod, LAMBDA d :
         Bind(UniformLoop(d, countl_zero(d), r, TapeLen), LAMBDA u :
           [u EXCEPT !.r = ToSigned((u.r + ToUnsigned(low)) % WordMod)]))

\* The outcome of a sampling step, stored into the validator.
Sampled(x, u) ==
  R([x EXCEPT !.rng = u.rng,
              !.status = IF u.st = "ok" THEN @
                         ELSE IF u.st = "abort" THEN "Aborted" ELSE "Hung",
              !.exit = IF u.st = "abort" THEN 134 ELSE @],
    u.r)

\* One draw from the generator of the validator.
Draw(x, low, high) ==
  Bind(UniformGenerator(low, high, x.rng, x.ndebug), LAMBDA u : Sampled(x, u))

\* validation.h:716-725
uniform_number(x, low, high) ==
  Bind(assert(x, low <= high), LAMBDA y :
    IF ~Active(y) THEN R(y, 0) ELSE Draw(y, low, high))

Swap(s, i, j) == [s EXCEPT ![i] = s[j], ![j] = s[i]]

\* Random::shuffle (validation.h:516-523); i is the 0-based index of the loop.
RECURSIVE ShuffleLoop(_, _, _)
ShuffleLoop(x, s, i) ==
  IF i <= 0 THEN R(x, s)
  ELSE Bind(Draw(x, 0, i), LAMBDA u :
         IF ~Active(u.x) THEN R(u.x, s)
         ELSE ShuffleLoop(u.x, Swap(s, i + 1, u.r + 1), i - 1))

shuffle(x, s) == ShuffleLoop(x, s, Len(s) - 1)

RECURSIVE SetToSeq(_)
SetToSeq(S) ==
  IF S = {} THEN <<>>
  ELSE Bind(CHOOSE a \in S : \A b \in S : a <= b,
            LAMBDA m : <<m>> \o SetToSeq(S \ {m}))

SeqToSet(s) == {s[i] : i \in 1..Len(s)}

RECURSIVE Insert(_, _)
Insert(s, a) ==
  IF s = <<>> THEN <<a>>
  ELSE IF a < s[1] THEN <<a>> \o s
  ELSE <<s[1]>> \o Insert(Tail(s), a)

RECURSIVE sort(_)
sort(s) == IF s = <<>> THEN <<>> ELSE Insert(sort(Tail(s)), s[1])

reverse(s) == [i \in 1..Len(s) |-> s[Len(s) + 1 - i]]

iota(low, high) == [i \in 1..(high - low + 1) |-> low + i - 1]

(***************************************************************************)
(* Parameter expressions (validation.h:140-256, 365-509).  An expression   *)
(* is kept in its parsed form, a record [kind, a, b, c] of one generator   *)
(* with its arguments; the choice among several weighted generators and    *)
(* the generators that take logarithms (normal, exponential, geometric,    *)
(* binomial) are not part of the model.  The results are records of        *)
(* UniformGenerator's shape.                                               *)
(***************************************************************************)
Param(kind_, a_, b_, c_) == [kind |-> kind_, a |-> a_, b |-> b_, c |-> c_]

\* The quotient of C++, which truncates toward zero; b > 0.
TruncDiv(a, b) == IF a >= 0 THEN a \div b ELSE -((-a) \div b)

clamp(c, low, high) == IF c < low THEN low ELSE IF high < c THEN high ELSE c

\* validation.h:142-157
ConstGenerator(const_, low, high, r) ==
  [st |-> "ok", r |-> clamp(const_, low, high), rng |-> r]

\* validation.h:159-170
MinGenerator(low, high, r) == [st |-> "ok", r |-> low, rng |-> r]

\* validation.h:172-183
MaxGenerator(low, high, r) == [st |-> "ok", r |-> high, rng |-> r]

\* validation.h:217-229
RangeGenerator(low_, high_, low, high, r, ndebug) ==
  UniformGenerator(Max(low, low_), Min(high, high_), r, ndebug)

\* The first value low_ + k * step_ that the code takes for start
\* (validation.h:241-249).
StepStart(low_, step_, low) ==
  IF low <= low_ THEN low_
  ELSE Bind(low_ + TruncDiv(low - low_, step_) * step_, LAMBDA s0 :
         IF s0 < low THEN s0 + step_ ELSE s0)

\* step_ > 0; a step of 0 divides by zero.
\* validation.h:231-255
StepRangeGenerator(low_, high_, step_, low, high, r, ndebug) ==
  Bind(StepStart(low_, step_, low), LAMBDA start :
    IF ~(low <= start /\ start < low + step_) /\ ~(low <= low_) /\ ~ndebug
      THEN [st |-> "abort", r |-> 0, rng |-> r]
    ELSE Bind(UniformGenerator(0, TruncDiv(Min(high, high_) - start, step_), r, ndebug),
              LAMBDA u : [u EXCEPT !.r = start + u.r * step_]))

\* real64 (validation.h:123-129) of two words, as the numerator of the sum
\* over 2^(2 * WordBits).  The sum is rounded to the WordBits bits of a long
\* double's mantissa: above the first word of all ones a second word of half
\* a unit or more rounds to 1.0, and assert(res < 1.0l) fails.
real64(r, ndebug) ==
  Bind(bits64(r), LAMBDA hi : Bind(bits64(Advance(r)), LAMBDA lo :
    IF hi = WordMod - 1 /\ 2 * lo >= WordMod /\ ~ndebug
      THEN [st |-> "abort", r |-> 0, rng |-> Advance(Advance(r))]
      ELSE [st |-> "ok", r |-> hi * WordMod + lo, rng |-> Advance(Advance(r))]))

\* The generator of a parsed expression (std::visit, validation.h:489).
Visit(p, low, high, r, ndebug) ==
  CASE p.kind = "const"     -> ConstGenerator(p.a, low, high, r)
    [] p.kind = "min"       -> MinGenerator(low, high, r)
    [] p.kind = "max"       -> MaxGenerator(low, high, r)
    [] p.kind = "uniform"   -> UniformGenerator(low, high, r, ndebug)
    [] p.kind = "range"     -> RangeGenerator(p.a, p.b, low, high, r, ndebug)
    [] p.kind = "steprange" -> StepRangeGenerator(p.a, p.b, p.c, low, high, r, ndebug)

\* ChoiceGenerator::operator() (validation.h:483-492) over one generator of
\* weight 1: x = real64 * 1 - 1 <= 0 selects it whatever the draw.
ChoiceGenerator(p, low, high, r, ndebug) ==
  Bind(real64(r, ndebug), LAMBDA x :
    IF x.st # "ok" THEN x ELSE Visit(p, low, high, x.rng, ndebug))

\* ParamGenerator::operator() (validation.h:495-509) on the validator.
ParamGenerator(x, p, low, high) ==
  Bind(ChoiceGenerator(p, low, high, x.rng, x.ndebug), LAMBDA u : Sampled(x, u))

(***************************************************************************)
(* gen_number for long long (validation.h:727-786).                        *)
(***************************************************************************)
\* do { v = uniform_number(low, high); } while(!seen_here.insert(v).second);
RECURSIVE RetryUnseen(_, _, _, _, _)
RetryUnseen(x, low, high, seen_here, fuel) ==
  Then(uniform_number(x, low, high), LAMBDA u :
    IF u.r \notin seen_here THEN u
    ELSE IF fuel = 0 THEN R([u.x EXCEPT !.status = "Hung"], 0)
    ELSE RetryUnseen(u.x, low, high, seen_here, fuel - 1))

\* v = remaining_here.back(); remaining_here.pop_back();
PopRemaining(x, name, rem) ==
  Bind(check(x, rem # <<>>), LAMBDA y :
    IF ~Active(y) THEN R(y, 0)
    ELSE R([y EXCEPT !.statics.integers_seen[name].remaining_here =
                        SubSeq(rem, 1, Len(rem) - 1)],
           rem[Len(rem)]))

\* The state of integers_seen[name] once seen_here has grown to seen1.
NoteSeen(is, low, high, seen1) ==
  IF Cardinality(seen1) > CDiv(high - low, 2)
    THEN [seen_here |-> seen1,
          remaining_here |-> SetToSeq((low..high) \ seen1),
          use_remaining |-> TRUE]
    ELSE [is EXCEPT !.seen_here = seen1]

gen_number_unique(x, name, low, high) ==
  Bind(x.statics.integers_seen[name], LAMBDA is :
    IF is.use_remaining THEN PopRemaining(x, name, is.remaining_here)
    ELSE Then(RetryUnseen(x, low, high, is.seen_here, TapeLen), LAMBDA u :
           R([u.x EXCEPT !.statics.integers_seen[name] =
                            NoteSeen(is, low, high, is.seen_here \cup {u.r})],
             u.r)))

\* gen_number that samples from [low, high + 1].
gen_number_past_high(x, name, low, high, tag) ==
  IF tag.unique
    THEN Bind(assert(x, name \notin DOMAIN x.params), LAMBDA a :
           IF ~Active(a) THEN R(a, 0) ELSE gen_number_unique(a, name, low, high))
  ELSE Bind(assert(x, ~tag.increasing /\ ~tag.decreasing /\ tag = Arbitrary), LAMBDA a :
         IF ~Active(a) THEN R(a, 0)
         ELSE IF name \in DOMAIN a.params
           THEN ParamGenerator(a, a.params[name], low, high)
         ELSE uniform_number(a, low, high + 1))

gen_number(x, name, low, high, tag) ==
  IF tag.unique
    THEN Bind(assert(x, name \notin DOMAIN x.params), LAMBDA a :
           IF ~Active(a) THEN R(a, 0) ELSE gen_number_unique(a, name, low, high))
  ELSE Bind(assert(x, ~tag.increasing /\ ~tag.decreasing /\ tag = Arbitrary), LAMBDA a :
         IF ~Active(a) THEN R(a, 0)
         ELSE IF name \in DOMAIN a.params
           THEN ParamGenerator(a, a.params[name], low, high)
         ELSE uniform_number(a, low, high))

(***************************************************************************)
(* gen_numbers for long long (validation.h:817-899).                       *)
(***************************************************************************)
RECURSIVE DrawLoop(_, _, _, _, _)
DrawLoop(x, n, low, high, acc) ==
  IF n <= 0 THEN R(x, acc)
  ELSE Bind(uniform_number(x, low, high), LAMBDA u :
         IF ~Active(u.x) THEN R(u.x, acc)
         ELSE DrawLoop(u.x, n - 1, low, high, Append(acc, u.r)))

RECURSIVE DrawUniqueLoop(_, _, _, _, _)
DrawUniqueLoop(x, n, low, high, acc) ==
  IF n <= 0 THEN R(x, acc)
  ELSE Bind(RetryUnseen(x, low, high, SeqToSet(acc), TapeLen), LAMBDA u :
         IF ~Active(u.x) THEN R(u.x, acc)
         ELSE DrawUniqueLoop(u.x, n - 1, low, high, Append(acc, u.r)))

\* v.resize(n): truncate, or extend with value-initialised elements.
resize(s, n) == [i \in 1..n |-> IF i <= Len(s) THEN s[i] ELSE 0]

\* The Unique branch of gen_numbers without the retry on a seen value.
gen_numbers_unique_no_retry(x, count, low, high) ==
  IF 2 * count < high - low
    THEN DrawLoop(x, count, low, high, <<>>)
    ELSE Bind(shuffle(x, iota(low, high)),
              LAMBDA sh : R(sh.x, resize(sh.r, Max(count, 0))))

gen_numbers_unique(x, count, low, high) ==
  IF 2 * count < high - low
    THEN DrawUniqueLoop(x, count, low, high, <<>>)
    ELSE Bind(shuffle(x, iota(low, high)),
              LAMBDA sh : R(sh.x, resize(sh.r, Max(count, 0))))

\* sort, then v[i] += i for strict integers, then reverse if decreasing.
\* Arrange without the v[i] += i of strict integers.
Arrange_no_shift(s, tag) ==
  Bind(sort(s), LAMBDA sorted : IF tag.decreasing THEN reverse(sorted) ELSE sorted)

Arrange(s, tag) ==
  Bind(sort(s), LAMBDA sorted :
    Bind(IF tag.strict THEN [i \in 1..Len(sorted) |-> sorted[i] + (i - 1)] ELSE sorted,
         LAMBDA shifted : IF tag.decreasing THEN reverse(shifted) ELSE shifted))

gen_numbers_monotone(x, count, low, high, tag) ==
  Then(DrawLoop(x, count, low, IF tag.strict THEN high - count + 1 ELSE high, <<>>),
       LAMBDA d : R(d.x, Arrange(d.r, tag)))

gen_numbers(x, name, count, low, high, tag) ==
  IF tag = Arbitrary THEN DrawLoop(x, count, low, high, <<>>)
  ELSE IF tag.unique THEN gen_numbers_unique(x, count, low, high)
  ELSE gen_numbers_monotone(x, count, low, high, tag)

(***************************************************************************)
(* read_number, read_numbers (validation.h:915-962) and the public         *)
(* read_integer, read_integers (validation.h:965-974).                     *)
(***************************************************************************)
Write(x, s) == [x EXCEPT !.out = @ \o s]

read_number(x, name, low, high, tag) ==
  IF x.gen
    THEN Then(gen_number(x, name, low, high, tag),
              LAMBDA g : R(Write(g.x, IntChars(g.r)), g.r))
    ELSE Then(read_integer_token(x),
              LAMBDA t : R(check_number(t.x, name, low, high, t.r, tag), t.r))

RECURSIVE WriteLoop(_, _, _, _)
WriteLoop(x, vals, i, sep) ==
  IF i > Len(vals) THEN x
  ELSE Bind(Write(x, IntChars(vals[i])), LAMBDA y :
         WriteLoop(IF i < Len(vals) THEN separator(y, sep) ELSE y, vals, i + 1, sep))

RECURSIVE ReadLoop(_, _, _, _, _, _, _, _)
ReadLoop(x, name, count, low, high, tag, sep, acc) ==
  IF Len(acc) >= count THEN R(x, acc)
  ELSE Bind(read_integer_token(x), LAMBDA t :
         IF ~Active(t.x) THEN R(t.x, acc)
         ELSE Bind(check_number(t.x, name, low, high, t.r, tag), LAMBDA c :
           IF ~Active(c) THEN R(c, acc)
           ELSE Bind(IF Len(acc) < count - 1 THEN separator(c, sep) ELSE c, LAMBDA z :
             IF ~Active(z) THEN R(z, acc)
             ELSE ReadLoop(z, name, count, low, high, tag, sep, Append(acc, t.r)))))

read_numbers(x, name, count, low, high, tag, sep) ==
  IF x.gen
    THEN Then(gen_numbers(x, name, count, low, high, tag), LAMBDA g :
           R(newline(WriteLoop(g.x, resize(g.r, Max(count, 0)), 1, sep)), g.r))
    ELSE Then(ReadLoop(reset(x, name), name, count, low, high, tag, sep, <<>>),
              LAMBDA l : R(newline(l.x), l.r))

read_integer(x, name, low, high, tag) == read_number(x, name, low, high, tag)

read_integers(x, name, count, low, high, tag, sep) ==
  read_numbers(x, name, count, low, high, tag, sep)

(***************************************************************************)
(* long double.  A finite value is the fraction num / den; the exponent    *)
(* range is scaled down as the width of long long is.  The comparisons     *)
(* are those of IEEE 754: every comparison with a NaN but != is false.     *)
(***************************************************************************)
Finite(num_, den_) == [kind |-> "finite", num |-> num_, den |-> den_]
Infinity(neg) == [kind |-> "inf", num |-> IF neg THEN 0 - 1 ELSE 1, den |-> 0]
NaN == [kind |-> "nan", num |-> 0, den |-> 0]
FromInteger(n) == Finite(n, 1)

LDBL_MAX_EXP == 4 * LDBL_MAX_10_EXP

isnan(a) == a.kind = "nan"

FLess(a, b) ==
  IF isnan(a) \/ isnan(b) THEN FALSE
  ELSE IF a.kind = "inf" /\ b.kind = "inf" THEN a.num < b.num
  ELSE a.num * b.den < b.num * a.den

FEqual(a, b) ==
  IF isnan(a) \/ isnan(b) THEN FALSE
  ELSE IF a.kind = "inf" /\ b.kind = "inf" THEN a.num = b.num
  ELSE a.num * b.den = b.num * a.den

(***************************************************************************)
(* std::stold (validation.h:1248): an optional sign, then INF or INFINITY, *)
(* NAN with an optional (n-char-sequence), a hexadecimal or a decimal      *)
(* floating constant, letters in either case.  idx is the number of        *)
(* characters processed; a result outside the range of long double, too    *)
(* large or too small, is std::out_of_range.                               *)
(***************************************************************************)
HexDigits == <<"0", "1", "2", "3", "4", "5", "6", "7", "8", "9", "a", "b", "c", "d", "e", "f">>
isxdigit(c) == \E i \in 1..16 : HexDigits[i] = tolower(c)
XDigitVal(c) == (CHOOSE i \in 1..16 : HexDigits[i] = tolower(c)) - 1

HasWord(s, b, w) ==
  /\ b + Len(w) - 1 <= Len(s)
  /\ \A i \in 1..Len(w) : tolower(s[b + i - 1]) = w[i]

IsAt(s, i, chars) == IF i <= Len(s) THEN tolower(s[i]) \in chars ELSE FALSE

RECURSIVE XDigitsEnd(_, _)
XDigitsEnd(s, i) == IF i <= Len(s) /\ isxdigit(s[i]) THEN XDigitsEnd(s, i + 1) ELSE i

RECURSIVE XDigitsValue(_, _, _)
XDigitsValue(s, i, e) ==
  IF e <= i THEN 0 ELSE 16 * XDigitsValue(s, i, e - 1) + XDigitVal(s[e - 1])

RECURSIVE AlnumEnd(_, _)
AlnumEnd(s, i) ==
  IF i <= Len(s) /\ (isalnum(s[i]) \/ s[i] = "_") THEN AlnumEnd(s, i + 1) ELSE i

RECURSIVE NumDigits(_)
NumDigits(n) == IF n < 10 THEN 1 ELSE 1 + NumDigits(n \div 10)

Parsed(idx_, val) == [ec |-> "ok", idx |-> idx_, value |-> val]
NoConversion == [ec |-> "invalid_argument", idx |-> 0, value |-> NaN]
OutOfRange == [ec |-> "out_of_range", idx |-> 0, value |-> NaN]

\* The exponent part at position m, after the letter in letters: its end and
\* its value, or m and 0 where no digits follow.
Exponent(s, m, letters) ==
  IF ~IsAt(s, m, letters) THEN [end |-> m, value |-> 0]
  ELSE Bind(IF IsAt(s, m + 1, {"+", "-"}) THEN m + 2 ELSE m + 1, LAMBDA d0 :
         Bind(DigitsEnd(s, d0), LAMBDA d1 :
           IF d1 = d0 THEN [end |-> m, value |-> 0]
           ELSE [end |-> d1,
                 value |-> IF IsAt(s, m + 1, {"-"}) THEN 0 - DigitsValue(s, d0, d1)
                           ELSE DigitsValue(s, d0, d1)]))

\* mant * base ^ e as a value, top the position of its leading digit.
Scaled(neg, mant, base, e, top, max_exp, end) ==
  IF mant = 0 THEN Parsed(end - 1, Finite(0, 1))
  ELSE IF top > max_exp \/ top < 1 - max_exp THEN OutOfRange
  ELSE Parsed(end - 1,
              Finite((IF neg THEN 0 - mant ELSE mant) * (IF e > 0 THEN base ^ e ELSE 1),
                     IF e < 0 THEN base ^ (0 - e) ELSE 1))

\* The digits s[b..i1-1] and s[f0..i2-1] around the point, the exponent ex.
DecimalConstant(s, neg, b, i1, f0, i2, ex) ==
  Bind(DigitsValue(s, b, i1) * (10 ^ (i2 - f0)) + DigitsValue(s, f0, i2), LAMBDA mant :
    Scaled(neg, mant, 10, ex.value - (i2 - f0),
           NumDigits(mant) - 1 + ex.value - (i2 - f0), LDBL_MAX_10_EXP, ex.end))

decimal_constant(s, neg, b) ==
  Bind(DigitsEnd(s, b), LAMBDA i1 :
    Bind(IF IsAt(s, i1, {"."}) THEN i1 + 1 ELSE i1, LAMBDA f0 :
      Bind(DigitsEnd(s, f0), LAMBDA i2 :
        IF (i1 - b) + (i2 - f0) = 0 THEN NoConversion
        ELSE DecimalConstant(s, neg, b, i1, f0, i2, Exponent(s, i2, {"e"})))))

HexConstant(s, neg, b, i1, f0, i2, ex) ==
  Bind(XDigitsValue(s, b, i1) * (16 ^ (i2 - f0)) + XDigitsValue(s, f0, i2), LAMBDA mant :
    Scaled(neg, mant, 2, ex.value - 4 * (i2 - f0),
           BitLen(mant) - 1 + ex.value - 4 * (i2 - f0), LDBL_MAX_EXP, ex.end))

\* b is the position behind 0x; without a hexadecimal digit there, the
\* constant is the decimal 0 in front of the x.
hex_constant(s, neg, b) ==
  Bind(XDigitsEnd(s, b), LAMBDA i1 :
    Bind(IF IsAt(s, i1, {"."}) THEN i1 + 1 ELSE i1, LAMBDA f0 :
      Bind(XDigitsEnd(s, f0), LAMBDA i2 :
        IF (i1 - b) + (i2 - f0) = 0 THEN Parsed(b - 2, Finite(0, 1))
        ELSE HexConstant(s, neg, b, i1, f0, i2, Exponent(s, i2, {"p"})))))

nan_constant(s, b) ==
  IF ~IsAt(s, b + 3, {"("}) THEN Parsed(b + 2, NaN)
  ELSE Bind(AlnumEnd(s, b + 4), LAMBDA e :
         IF IsAt(s, e, {")"}) THEN Parsed(e, NaN) ELSE Parsed(b + 2, NaN))

stold(s) ==
  Bind(IsAt(s, 1, {"-"}), LAMBDA neg :
    Bind(IF IsAt(s, 1, {"+", "-"}) THEN 2 ELSE 1, LAMBDA b :
      IF HasWord(s, b, <<"i", "n", "f", "i", "n", "i", "t", "y">>)
        THEN Parsed(b + 7, Infinity(neg))
      ELSE IF HasWord(s, b, <<"i", "n", "f">>) THEN Parsed(b + 2, Infinity(neg))
      ELSE IF HasWord(s, b, <<"n", "a", "n">>) THEN nan_constant(s, b)
      ELSE IF HasWord(s, b, <<"0", "x">>) THEN hex_constant(s, neg, b + 2)
      ELSE decimal_constant(s, neg, b)))

\* The private read_float(name), validation.h:1242-1258.
read_float_token(x) ==
  Then(get_string(x), LAMBDA g :
    Bind(stold(g.r), LAMBDA p :
      IF p.ec # "ok" \/ p.idx # Len(g.r) THEN R(WA(g.x), NaN) ELSE R(g.x, p.value)))

(***************************************************************************)
(* check_number and log_constraint for long double                         *)
(* (validation.h:652-685, 1184-1208) with a tag that is not Unique.        *)
(***************************************************************************)
UpdateBoundsLD(done, low, high, val) ==
  [done EXCEPT !.min = IF FLess(val, done.min) THEN val ELSE @,
               !.low = IF FLess(val, done.min) THEN low ELSE @,
               !.max = IF FLess(done.max, val) THEN val ELSE @,
               !.high = IF FLess(done.max, val) THEN high ELSE @,
               !.has_min = @ \/ FEqual(val, low),
               !.has_max = @ \/ FEqual(val, high)]

log_constraint_ld(x, name, low, high, val) ==
  Bind(IF name \notin DOMAIN x.bounds THEN Bounds(name, val, val, low, high)
       ELSE x.bounds[name],
       LAMBDA done :
         [x EXCEPT !.bounds = [n \in (DOMAIN x.bounds) \cup {name} |->
                                 IF n = name THEN UpdateBoundsLD(done, low, high, val)
                                 ELSE x.bounds[n]]])

check_last_seen_ld(y, name, val, tag) ==
  Bind(y.statics.last_seen_ld[name], LAMBDA slot :
    Bind([y EXCEPT !.statics.last_seen_ld[name] = <<val>>], LAMBDA z :
      IF slot = NoValue THEN z
      ELSE ThenX(IF tag.increasing
                   THEN check(z, ~FLess(val, slot[1]) /\ ~isnan(val) /\ ~isnan(slot[1]))
                   ELSE z, LAMBDA c1 :
             ThenX(IF tag.decreasing
                     THEN check(c1, ~FLess(slot[1], val) /\ ~isnan(val) /\ ~isnan(slot[1]))
                     ELSE c1, LAMBDA c2 :
               IF tag.strict THEN check(c2, ~FEqual(val, slot[1])) ELSE c2))))

check_number_ld(x, name, low, high, val, tag) ==
  IF FLess(val, low) \/ FLess(high, val) THEN expected(x)
  ELSE ThenX(log_constraint_ld(x, name, low, high, val), LAMBDA y :
         check_last_seen_ld(y, name, val, tag))

\* read_number<long double> in read mode and the public read_float
\* (validation.h:915-932, 976-980), low and high being whole numbers.
read_float(x, name, low, high, tag) ==
  Then(read_float_token(x), LAMBDA t :
    R(check_number_ld(t.x, name, FromInteger(low), FromInteger(high), t.r, tag), t.r))

(***************************************************************************)
(* Strings (validation.h:687-714, 788-802, 1044-1110, 1336-1340).          *)
(***************************************************************************)
LenKey(name) == IF name = "a" THEN "|a|" ELSE "|b|"

lowercase(x, s) ==
  IF x.case_sensitive THEN s ELSE [i \in 1..Len(s) |-> tolower(s[i])]

\* operator< of std::string: the order of the first characters that differ,
\* a proper prefix coming first.
Ascii ==
  <<TAB, NL, CR, SP, "(", ")", "+", "-", ".",
    "0", "1", "2", "3", "4", "5", "6", "7", "8", "9">> \o Upper \o <<"_">> \o Lower

Ord(c) == CHOOSE i \in 1..Len(Ascii) : Ascii[i] = c

RECURSIVE StrLess(_, _)
StrLess(a, b) ==
  IF b = <<>> THEN FALSE
  ELSE IF a = <<>> THEN TRUE
  ELSE IF a[1] = b[1] THEN StrLess(Tail(a), Tail(b))
  ELSE Ord(a[1]) < Ord(b[1])

\* The ordered branch of check_string without the comparison for strict tags.
check_last_seen_str_not_strict(y, name, s, tag) ==
  Bind(y.statics.last_seen_str[name], LAMBDA slot :
    Bind([y EXCEPT !.statics.last_seen_str[name] = <<s>>], LAMBDA z :
      IF slot = NoValue THEN z
      ELSE ThenX(IF tag.increasing THEN check(z, ~StrLess(s, slot[1])) ELSE z, LAMBDA c1 :
             IF tag.decreasing THEN check(c1, ~StrLess(slot[1], s)) ELSE c1)))

\* The ordered branch of check_string, validation.h:700-713.
check_last_seen_str(y, name, s, tag) ==
  Bind(y.statics.last_seen_str[name], LAMBDA slot :
    Bind([y EXCEPT !.statics.last_seen_str[name] = <<s>>], LAMBDA z :
      IF slot = NoValue THEN z
      ELSE ThenX(IF tag.increasing THEN check(z, ~StrLess(s, slot[1])) ELSE z, LAMBDA c1 :
             ThenX(IF tag.decreasing THEN check(c1, ~StrLess(slot[1], s)) ELSE c1, LAMBDA c2 :
               IF tag.strict THEN check(c2, s # slot[1]) ELSE c2))))

check_string(x, name, low, high, s, tag) ==
  IF Len(s) < low \/ Len(s) > high THEN expected(x)
  ELSE Bind(log_constraint(x, LenKey(name), low, high, Len(s)), LAMBDA y :
         IF tag.unique
           THEN check([y EXCEPT !.statics.seen_str[name] = @ \cup {s}],
                      s \notin y.statics.seen_str[name])
         ELSE IF tag.increasing \/ tag.decreasing
           THEN check_last_seen_str(y, name, s, tag)
         ELSE y)

\* for(auto& x : s) x = chars[uniform_number<int>(0, chars.size() - 1)];
RECURSIVE FillLoop(_, _, _, _)
FillLoop(x, n, chars, acc) ==
  IF n <= 0 THEN R(x, acc)
  ELSE Bind(uniform_number(x, 0, Len(chars) - 1), LAMBDA u :
         IF ~Active(u.x) THEN R(u.x, acc)
         ELSE FillLoop(u.x, n - 1, chars, Append(acc, chars[u.r + 1])))

gen_string(x, name, low, high, chars) ==
  Bind(assert(x, chars # <<>>), LAMBDA a :
    IF ~Active(a) THEN R(a, <<>>)
    ELSE Then(uniform_number(a, low, high), LAMBDA l :
           Then(FillLoop(l.x, l.r, chars, <<>>), LAMBDA f :
             R(Write(f.x, f.r), f.r))))

\* The character check of read_string, validation.h:1101-1107.
ok_char(chars, s) == chars = <<>> \/ \A i \in 1..Len(s) : s[i] \in SeqToSet(chars)

read_string(x, name, min, max, chars, tag) ==
  IF x.gen THEN gen_string(x, name, min, max, chars)
  ELSE Then(get_string(x), LAMBDA g :
         Bind(check(g.x, ok_char(chars, g.r)), LAMBDA c :
           IF ~Active(c) THEN R(c, <<>>)
           ELSE R(check_string(c, name, min, max, g.r, tag), g.r)))

test_strings(x, exp) ==
  IF x.gen
    THEN Then(IF Len(exp) = 1 THEN R(x, 0) ELSE uniform_number(x, 0, Len(exp) - 1),
              LAMBDA u : R(Write(u.x, exp[u.r + 1]), exp[u.r + 1]))
    ELSE Then(get_string(x), LAMBDA g :
           Bind(lowercase(x, g.r), LAMBDA s :
             IF \E i \in 1..Len(exp) : s = lowercase(x, exp[i]) THEN R(g.x, s)
             ELSE R(WA(g.x), s)))

\* reset<std::string>(name), validation.h:645-650; no sampling state is kept
\* for strings.
reset_str(x, name) ==
  [x EXCEPT !.statics.seen_str[name] = {}, !.statics.last_seen_str[name] = NoValue]

RECURSIVE ReadStringsLoop(_, _, _, _, _, _, _, _, _)
ReadStringsLoop(x, name, count, min, max, chars, tag, sep, acc) ==
  IF Len(acc) >= count THEN R(x, acc)
  ELSE Bind(read_string(x, name, min, max, chars, tag), LAMBDA t :
         IF ~Active(t.x) THEN R(t.x, acc)
         ELSE Bind(IF Len(acc) < count - 1 THEN separator(t.x, sep) ELSE t.x, LAMBDA z :
           IF ~Active(z) THEN R(z, acc)
           ELSE ReadStringsLoop(z, name, count, min, max, chars, tag, sep, Append(acc, t.r))))

\* read_strings in read mode, validation.h:989-1002.
read_strings(x, name, count, min, max, chars, tag, sep) ==
  Then(ReadStringsLoop(reset_str(x, name), name, count, min, max, chars, tag, sep, <<>>),
       LAMBDA l : R(newline(l.x), l.r))

RECURSIVE popcount(_)
popcount(u) == IF u = 0 THEN 0 ELSE (u % 2) + popcount(u \div 2)

\* The comparison of peek with the next character of the stream.
PeekIs(y, c) ==
  /\ ~AtEnd(y)
  /\ ~y.eofbit
  /\ IF y.case_sensitive THEN NextChar(y) = c ELSE tolower(NextChar(y)) = tolower(c)

(***************************************************************************)
(* read_line (validation.h:1112-1148).                                     *)
(***************************************************************************)
\* The position of the first '\n' at or after p, or Len(s) when none is left.
RECURSIVE LineEnd(_, _)
LineEnd(s, p) == IF p < Len(s) /\ s[p + 1] # NL THEN LineEnd(s, p + 1) ELSE p

\* getline(in, s): fails when nothing is left to extract; otherwise extracts
\* up to and without the next '\n', which it consumes, or up to the end of
\* the stream, which sets eofbit.
getline(x) ==
  IF x.eofbit \/ AtEnd(x)
    THEN R(expected_found(SetEof(x), "line", "nothing"), <<>>)
  ELSE Bind(LineEnd(x.inp, x.pos), LAMBDA e :
         IF e < Len(x.inp)
           THEN R([x EXCEPT !.pos = e + 1], SubSeq(x.inp, x.pos + 1, e))
           ELSE R([x EXCEPT !.pos = e, !.eofbit = TRUE], SubSeq(x.inp, x.pos + 1, e)))

\* if(ws) { next = in.peek(); ... } (validation.h:1125-1130)
peek_line(x, min) ==
  IF ~x.ws THEN x
  ELSE IF x.eofbit \/ AtEnd(x) THEN expected_found(SetEof(x), "line", "EOF")
  ELSE IF min > 0 /\ isspace(NextChar(x))
    THEN expected_found(x, "non empty line",
                        IF NextChar(x) = NL THEN "newline" ELSE "whitespace")
  ELSE x

\* The generator branch (validation.h:1115-1123).
gen_line(x, min, max, chars) ==
  Bind(assert(x, chars # <<>>), LAMBDA a :
    IF ~Active(a) THEN R(a, <<>>)
    ELSE Then(uniform_number(a, min, max), LAMBDA l :
           Then(FillLoop(l.x, l.r, chars, <<>>), LAMBDA f :
             R(Write(f.x, f.r \o <<NL>>), f.r))))

read_line(x, name, min, max, chars) ==
  IF x.gen THEN gen_line(x, min, max, chars)
  ELSE Bind(peek_line(x, min), LAMBDA p :
         IF ~Active(p) THEN R(p, <<>>)
         ELSE Then(getline(p), LAMBDA g :
                IF Len(g.r) < min \/ Len(g.r) > max THEN R(expected(g.x), <<>>)
                ELSE Bind(check(g.x, ok_char(chars, g.r)), LAMBDA c :
                       IF ~Active(c) THEN R(c, <<>>)
                       ELSE R(log_constraint(c, LenKey(name), min, max, Len(g.r)),
                              g.r))))

\* peek with in.get() in place of in.peek().
peek_extracts(x, c) ==
  IF x.gen
    THEN R([x EXCEPT !.rng = Advance(@)], popcount(bits64(x.rng)) % 2 = 1)
    ELSE Bind(IF ~x.ws THEN SkipWs(x) ELSE x, LAMBDA y :
           R(IF AtEnd(y) THEN SetEof(y) ELSE Consume(y), PeekIs(y, c)))

peek(x, c) ==
  IF x.gen
    THEN R([x EXCEPT !.rng = Advance(@)], popcount(bits64(x.rng)) % 2 = 1)
    ELSE Bind(IF ~x.ws THEN SkipWs(x) ELSE x, LAMBDA y :
           R(IF AtEnd(y) THEN SetEof(y) ELSE y, PeekIs(y, c)))

(***************************************************************************)
(* A call of a public member function, and its application.  Apply returns *)
(* the validator after the call and the value the call returned.           *)
(***************************************************************************)
Call(op_, name_, low_, high_, tag_, count_, sep_, text_) ==
  [op |-> op_, name |-> name_, low |-> low_, high |-> high_, tag |-> tag_,
   count |-> count_, sep |-> sep_, text |-> text_]

Plain(op_) == Call(op_, "a", 0, 0, Arbitrary, 0, "Space", <<>>)

Unit(x) == R(x, <<>>)

Apply(x, d) ==
  CASE d.op = "space"          -> Unit(space(x))
    [] d.op = "newline"        -> Unit(newline(x))
    [] d.op = "read_integer"   -> read_integer(x, d.name, d.low, d.high, d.tag)
    [] d.op = "read_float"     -> read_float(x, d.name, d.low, d.high, d.tag)
    [] d.op = "read_integers"  -> read_integers(x, d.name, d.count, d.low, d.high, d.tag, d.sep)
    [] d.op = "read_string"    -> read_string(x, d.name, d.low, d.high, d.text, d.tag)
    [] d.op = "read_strings"   ->
         read_strings(x, d.name, d.count, d.low, d.high, d.text, d.tag, d.sep)
    [] d.op = "read_line"      -> read_line(x, d.name, d.low, d.high, d.text)
    [] d.op = "test_strings"   -> test_strings(x, d.text)
    [] d.op = "peek"           -> peek(x, d.text[1])
    [] d.op = "set_WA_handler" -> Unit(set_WA_handler(x, d.count))
    [] d.op = "WA"             -> Unit(WA(x))
    [] d.op = "eof_and_AC"     -> Unit(eof_and_AC(x))
    [] d.op = "eof"            -> Unit(eof(x))

(***************************************************************************)
(* The calls and inputs the model draws from.  phase tells the             *)
(* specification apart: "single" for one validator process, "first",       *)
(* "second" and "done" for the two runs of one caller program.             *)
(***************************************************************************)
Seeds == {s * SeedStride : s \in 0..MaxSeed}
PairSeeds == {s * SeedStride : s \in 0..MaxPairSeed}

InChars == {"1", "2", SP, NL}

RECURSIVE SeqsUpTo(_, _)
SeqsUpTo(S, n) ==
  IF n = 0 THEN {<<>>}
  ELSE Bind(SeqsUpTo(S, n - 1), LAMBDA shorter :
         shorter \cup {Append(s, c) : s \in {t \in shorter : Len(t) = n - 1}, c \in S})

Inputs == SeqsUpTo(InChars, MaxIn)

Letters == <<"a", "b">>

\* The tags of the reads that carry a constraint, a merged tag among them.
TaggedTags == {Unique, StrictlyIncreasing, Merge(Unique, Increasing)}

MonotoneTags == {Increasing, Decreasing, StrictlyIncreasing, StrictlyDecreasing}

ReadIntegerCalls ==
  IF phase = "param"
    THEN {Call("read_integer", "a", rg[1], rg[2], Arbitrary, 0, "Space", <<>>) :
            rg \in {<<1, 2>>, <<0, 3>>, <<-2, 2>>}}
  ELSE IF phase = "tagged"
    THEN {Call("read_integer", "a", 1, 3, t, 0, "Space", <<>>) : t \in TaggedTags}
  ELSE IF phase = "mono"
    THEN {Call("read_integer", "a", 1, 3, t, 0, "Space", <<>>) :
            t \in {Increasing, StrictlyDecreasing}}
  ELSE IF phase = "token"
    THEN {Call("read_integer", "a", LLONG_MIN, LLONG_MAX, Arbitrary, 0, "Space", <<>>)}
  ELSE IF phase = "single" /\ ~v.gen
    THEN {Call("read_integer", "a", 1, 3, Arbitrary, 0, "Space", <<>>),
          Call("read_integer", "a", 2, 3, Arbitrary, 0, "Space", <<>>),
          Call("read_integer", "a", 1, 3, Unique, 0, "Space", <<>>),
          Call("read_integer", "b", 1, 3, Unique, 0, "Space", <<>>)}
  ELSE IF phase = "single"
    THEN {Call("read_integer", "a", 0, 3, Arbitrary, 0, "Space", <<>>),
          Call("read_integer", "a", 0, 3, Unique, 0, "Space", <<>>),
          Call("read_integer", "a", 1, 3, Unique, 0, "Space", <<>>)}
  ELSE {Call("read_integer", "a", rg[1], rg[2], Arbitrary, 0, "Space", <<>>) :
            rg \in {<<1, 1>>, <<0, 3>>}}

ReadIntegersCalls ==
  IF phase = "tagged"
    THEN {Call("read_integers", "a", 1, 3, t, 2, "Space", <<>>) : t \in TaggedTags}
  ELSE IF phase = "vector" /\ v.gen
    THEN {Call("read_integers", "a", 1, 5, StrictlyIncreasing, 3, sep, <<>>) :
            sep \in {"Space", "Newline"}}
  ELSE IF phase = "vector"
    THEN {Call("read_integers", "a", 1, 3, Arbitrary, n, sep, <<>>) :
            n \in 0..2, sep \in {"Space", "Newline"}}
  ELSE IF phase = "mono"
    THEN {Call("read_integers", "a", 1, 3, Arbitrary, 0, "Space", <<>>),
          Call("read_integers", "a", 1, 3, Unique, 1, "Space", <<>>),
          Call("read_integers", "a", 1, 3, Decreasing, 1, "Space", <<>>)}
  ELSE IF phase = "single" /\ ~v.gen
    THEN {Call("read_integers", "a", 1, 3, Arbitrary, 0, "Space", <<>>),
          Call("read_integers", "a", 1, 3, Unique, 2, "Space", <<>>)}
  ELSE IF phase = "single"
    THEN {Call("read_integers", "a", 0 - 2, 3, Unique, 2, "Space", <<>>),
          Call("read_integers", "a", 1, 3, Unique, 2, "Space", <<>>),
          Call("read_integers", "a", 1, 3, Unique, 3, "Space", <<>>),
          Call("read_integers", "a", 1, 3, StrictlyIncreasing, 2, "Space", <<>>),
          Call("read_integers", "a", 1, 3, StrictlyIncreasing, 3, "Space", <<>>),
          Call("read_integers", "a", 1, 3, StrictlyDecreasing, 2, "Space", <<>>)}
  ELSE {Call("read_integers", "a", 1, 3, Unique, 2, "Space", <<>>)}

ReadStringCalls ==
  IF phase = "tagged"
    THEN {Call("read_string", "a", 1, 1, t, 0, "Space", <<"1", "2">>) : t \in TaggedTags}
  ELSE IF phase = "mono"
    THEN {Call("read_string", "a", 1, 2, t, 0, "Space", <<"1", "2">>) :
            t \in {Decreasing, StrictlyIncreasing}}
  ELSE {Call("read_string", "a", 1, 1, t, 0, "Space", Letters) : t \in {Arbitrary, Unique}}

TestStringsCalls ==
  {Call("test_strings", "a", 0, 0, Arbitrary, 0, "Space", <<<<"a">>>>)}

PeekCalls ==
  {Call("peek", "a", 0, 0, Arbitrary, 0, "Space", <<c>>) :
     c \in IF phase = "stream" THEN {"a", SP} ELSE {"a"}}

(***************************************************************************)
(* One validator process: v is the validator, prog the calls that have     *)
(* returned so far, each with the value it returned.  In the phases        *)
(* "stream", "token", "mono" and "vector" prog holds the calls that ended  *)
(* the process too.                                                        *)
(***************************************************************************)
Idle == [status |-> "Idle"]

ReadValidators ==
  {Validator(w, TRUE, i, p, NoSeed, FALSE) : w \in BOOLEAN, i \in Inputs, p \in BOOLEAN}

\* Generator(seed), validation.h:1407-1411
Generator(seed) == Validator(TRUE, TRUE, <<>>, FALSE, seed, FALSE)

Init ==
  /\ phase = "single"
  /\ prog = <<>>
  /\ v \in ReadValidators
  /\ v2 = Idle

InitGen ==
  /\ phase = "single"
  /\ prog = <<>>
  /\ v \in {Generator(s) : s \in Seeds}
  /\ v2 = Idle

\* The specifications of single calls record the calls that end the process.
Recording == phase \in {"stream", "token", "mono", "vector", "tagged", "line"}

CanCall ==
  /\ phase \in {"single", "first", "stream", "token", "mono", "vector", "tagged",
                "param", "line"}
  /\ Active(v)
  /\ Len(prog) < MaxProg

\* The programs of the two-run specification write a separator between two
\* tokens, as any format that a reader can take apart does.
Separated(x) == IF x.out = <<>> THEN TRUE ELSE isspace(x.out[Len(x.out)])

CanToken == CanCall /\ (IF phase = "first" THEN Separated(v) ELSE TRUE)

Do(d) ==
  \E a \in {Apply(v, d)} :
     /\ v' = a.x
     /\ prog' = IF Active(a.x) \/ Recording
                  THEN Append(prog, [call |-> d, ret |-> a.r])
                  ELSE prog
     /\ UNCHANGED <<v2, phase>>

Space == CanCall /\ Do(Plain("space"))

Newline == CanCall /\ Do(Plain("newline"))

ReadInteger == CanToken /\ \E d \in ReadIntegerCalls : Do(d)

ReadIntegers == CanToken /\ \E d \in ReadIntegersCalls : Do(d)

ReadString == CanToken /\ \E d \in ReadStringCalls : Do(d)

TestStrings == CanToken /\ \E d \in TestStringsCalls : Do(d)

Peek == CanCall /\ \E d \in PeekCalls : Do(d)

SetWAHandler ==
  /\ CanCall /\ v.WA_handler = 0
  /\ Do(Call("set_WA_handler", "a", 0, 0, Arbitrary, 1, "Space", <<>>))

CallWA == CanCall /\ Do(Plain("WA"))

EofAndAC == CanCall /\ Do(Plain("eof_and_AC"))

Destruct ==
  /\ phase \in {"single", "first"}
  /\ Active(v)
  /\ v' = Destructor(v)
  /\ UNCHANGED <<v2, prog, phase>>

Next ==
  \/ Space \/ Newline \/ ReadInteger \/ ReadIntegers
  \/ SetWAHandler \/ CallWA \/ EofAndAC \/ Destruct

Spec == Init /\ [][Next]_vars

NextGen == ReadInteger \/ ReadIntegers \/ Destruct

SpecGen == InitGen /\ [][NextGen]_vars

(***************************************************************************)
(* The stream primitives on their own: a read-mode validator in either     *)
(* whitespace mode and case policy over a short input, and the calls       *)
(* space(), newline(), peek(c) and eof().  eof() is private; it runs at    *)
(* the start of eof_and_AC() and of the destructor.                        *)
(***************************************************************************)
StreamChars == {"a", "A", SP, NL, CR}

StreamInputs == SeqsUpTo(StreamChars, MaxIn)

InitStream ==
  /\ phase = "stream"
  /\ prog = <<>>
  /\ v \in {Validator(w, c, i, FALSE, NoSeed, FALSE) :
              w \in BOOLEAN, c \in BOOLEAN, i \in StreamInputs}
  /\ v2 = Idle

Eof == CanCall /\ Do(Plain("eof"))

NextStream == Space \/ Newline \/ Peek \/ Eof

SpecStream == InitStream /\ [][NextStream]_vars

(***************************************************************************)
(* One token: a read-mode validator whose input is a single token, and     *)
(* the readers of a number applied to it.                                  *)
(***************************************************************************)
IntegerChars == {"0", "1", "8", "-", "+"}

FloatChars == {"0", "1", ".", "e", "-", "+", "n", "a", "N", "i", "f", "x"}

FloatWords ==
  {<<"-", "i", "n", "f">>, <<"-", "I", "n", "f">>, <<"I", "N", "F">>, <<"+", "I", "n", "f">>,
   <<"i", "n", "f", "i", "n", "i", "t", "y">>, <<"i", "n", "f", "i">>,
   <<"-", "N", "a", "N">>, <<"n", "a", "n", "(", "1", ")">>, <<"n", "a", "n", "(">>,
   <<"1", "e", "+", "1">>, <<"1", "E", "-", "1">>, <<"1", ".", "1", "e", "1">>,
   <<"0", "x", "1", "p", "1">>, <<"0", "X", ".", "8">>, <<"1", "e", "-", "9">>}

TokenInputs == SeqsUpTo(IntegerChars, MaxIn) \cup SeqsUpTo(FloatChars, MaxIn) \cup FloatWords

ReadFloatCalls ==
  {Call("read_float", "a", rg[1], rg[2], t, 0, "Space", <<>>) :
     rg \in {<<0, 1>>, <<LLONG_MIN, LLONG_MAX>>}, t \in {Arbitrary, Increasing}}

InitToken ==
  /\ phase = "token"
  /\ prog = <<>>
  /\ v \in {Validator(w, TRUE, i, FALSE, NoSeed, FALSE) : w \in BOOLEAN, i \in TokenInputs}
  /\ v2 = Idle

ReadFloat == CanToken /\ \E d \in ReadFloatCalls : Do(d)

NextToken == ReadInteger \/ ReadFloat

SpecToken == InitToken /\ [][NextToken]_vars

(***************************************************************************)
(* Reads of one name with ordered tags: a read-mode validator over up to   *)
(* MaxProg tokens with one space between them, read as integers or as      *)
(* strings, as scalars or as vectors.                                      *)
(***************************************************************************)
MonoTokens == {<<"1">>, <<"2">>, <<"1", "2">>}

RECURSIVE Join(_)
Join(ts) ==
  IF ts = <<>> THEN <<>>
  ELSE IF Len(ts) = 1 THEN ts[1]
  ELSE ts[1] \o <<SP>> \o Join(Tail(ts))

MonoInputs == {Join(ts) : ts \in SeqsUpTo(MonoTokens, MaxProg)}

InitMono ==
  /\ phase = "mono"
  /\ prog = <<>>
  /\ v \in {Validator(w, TRUE, i, FALSE, NoSeed, FALSE) : w \in BOOLEAN, i \in MonoInputs}
  /\ v2 = Idle

NextMono == Space \/ ReadInteger \/ ReadIntegers \/ ReadString

SpecMono == InitMono /\ [][NextMono]_vars

(***************************************************************************)
(* Two runs of one caller program.  The first run is a generator with a    *)
(* seed; prog becomes the program it ran.  Once its destructor has         *)
(* returned, a second process runs the same calls and then its destructor: *)
(* either a strict reader over the bytes the first run wrote, or a         *)
(* generator with a seed of its own.                                       *)
(***************************************************************************)
RECURSIVE RunFrom(_, _, _)
RunFrom(x, p, i) ==
  IF i > Len(p) THEN Destructor(x)
  ELSE ThenX(Apply(x, p[i].call).x, LAMBDA y : RunFrom(y, p, i + 1))

Run(x, p) == RunFrom(x, p, 1)

\* InputValidator without --generate, validation.h:1413-1418, reading in_.
InputValidator(in_) == Validator(TRUE, TRUE, in_, FALSE, NoSeed, FALSE)

InitPair ==
  /\ phase = "first"
  /\ prog = <<>>
  /\ v \in {Generator(s) : s \in PairSeeds}
  /\ v2 = Idle

SecondRead ==
  /\ phase = "first"
  /\ v.status = "Destroyed"
  /\ v2' = Run(InputValidator(v.out), prog)
  /\ phase' = "done_read"
  /\ UNCHANGED <<v, prog>>

SecondGen ==
  /\ phase = "first"
  /\ v.status = "Destroyed"
  /\ \E s \in PairSeeds : v2' = Run(Generator(s), prog)
  /\ phase' = "done_gen"
  /\ UNCHANGED <<v, prog>>

NextPair ==
  \/ Space \/ Newline \/ ReadInteger \/ ReadIntegers \/ ReadString \/ TestStrings \/ Peek
  \/ Destruct \/ SecondRead \/ SecondGen

SpecPair == InitPair /\ [][NextPair]_vars

(***************************************************************************)
(* Vector reads and newline(): a generator with a seed, or a strict reader *)
(* over an input of up to MaxIn + 1 bytes.                                 *)
(***************************************************************************)
VectorInputs == SeqsUpTo(InChars, MaxIn + 1)

InitVector ==
  /\ phase = "vector"
  /\ prog = <<>>
  /\ v \in {Generator(s) : s \in Seeds} \cup {InputValidator(i) : i \in VectorInputs}
  /\ v2 = Idle

NextVector == ReadIntegers \/ Newline

SpecVector == InitVector /\ [][NextVector]_vars

(***************************************************************************)
(* The diff validator, default_output_validator.cpp: it compares the team  *)
(* output with the jury answer token by token and returns the verdict as   *)
(* its exit code.                                                          *)
(***************************************************************************)
verdict_AC == 42
verdict_WA == 43
TEXT_LIMIT == 200

TEXT_ELLIPSIS == <<"[", ".", ".", ".", "]">>

\* " \f\n\r\t\v"; a TLA+ string cannot hold the vertical tab.
WHITESPACE == <<SP, "\f", NL, CR, TAB>>

is_space(c) == \E i \in 1..Len(WHITESPACE) : WHITESPACE[i] = c

is_digits(token) == \A i \in 1..Len(token) : isdigit(token[i])

\* The 1-based position of the first character of token in chars, or
\* Len(token) + 1 (npos) without one.
RECURSIVE find_first_of(_, _, _)
find_first_of(token, chars, i) ==
  IF i > Len(token) \/ token[i] \in chars THEN i ELSE find_first_of(token, chars, i + 1)

substr(token, from, to) == SubSeq(token, from, Min(to, Len(token)))

is_integer(token) ==
  Bind(IF token # <<>> /\ token[1] = "-" THEN Tail(token) ELSE token, LAMBDA t :
    /\ t # <<>>
    /\ ~(Len(t) > 1 /\ t[1] = "0")
    /\ is_digits(t))

is_decimal(token) ==
  Bind(find_first_of(token, {"."}, 1), LAMBDA dot :
    /\ is_integer(substr(token, 1, dot - 1))
    /\ (dot <= Len(token) => is_digits(substr(token, dot + 1, Len(token)))))

is_float(token) ==
  Bind(find_first_of(token, {"e", "E"}, 1), LAMBDA e :
    /\ is_decimal(substr(token, 1, e - 1))
    /\ (e <= Len(token) =>
          Bind(IF e + 1 <= Len(token) /\ token[e + 1] \in {"-", "+"} THEN 1 ELSE 0,
               LAMBDA has_sign :
                 /\ substr(token, e + 1 + has_sign, Len(token)) # <<>>
                 /\ is_digits(substr(token, e + 1 + has_sign, Len(token))))))

(***************************************************************************)
(* token_view (default_output_validator.cpp:93-158).  The empty token is   *)
(* EOF.  is_float gives the outcome of std::stold, which has a value       *)
(* where ec is "ok".                                                       *)
(***************************************************************************)
is_eof(token) == token = <<>>

token_is_space(token) == Len(token) = 1 /\ is_space(token[1])

token_is_float(token) == IF ~is_float(token) THEN NoConversion ELSE stold(token)

has_value(opt) == opt.ec = "ok"

equal(a, b) == a = b

case_insensitive_equal(a, b) ==
  /\ Len(a) = Len(b)
  /\ \A i \in 1..Len(a) : tolower(a[i]) = tolower(b[i])

Quoted(s) == <<"\"">> \o s \o <<"\"">>

formatted(token) ==
  IF is_eof(token) THEN <<"E", "O", "F">>
  ELSE IF token = <<SP>> THEN Quoted(<<SP>>)
  ELSE IF token = <<"\f">> THEN Quoted(<<"\\", "f">>)
  ELSE IF token = <<NL>> THEN Quoted(<<"\\", "n">>)
  ELSE IF token = <<CR>> THEN Quoted(<<"\\", "r">>)
  ELSE IF token = <<TAB>> THEN Quoted(<<"\\", "t">>)
  ELSE IF Len(token) > TEXT_LIMIT
    THEN SubSeq(token, 1, TEXT_LIMIT - Len(TEXT_ELLIPSIS)) \o TEXT_ELLIPSIS
  ELSE token

(***************************************************************************)
(* token_stream (default_output_validator.cpp:163-194): a token is a       *)
(* single whitespace character or a run of other characters.               *)
(***************************************************************************)
next(ts) ==
  Bind(IF ts.todo = <<>> THEN 0
       ELSE Max(1, Min(find_first_of(ts.todo, {WHITESPACE[i] : i \in 1..Len(WHITESPACE)}, 1) - 1,
                       Len(ts.todo))),
       LAMBDA end : [ts EXCEPT !.last = SubSeq(ts.todo, 1, end),
                               !.todo = SubSeq(ts.todo, end + 1, Len(ts.todo))])

set(s) == next([raw |-> s, todo |-> s, last |-> <<>>])

(***************************************************************************)
(* The parameters of main (default_output_validator.cpp:334-383).  args is *)
(* argv from index 4, an option with a value as one element.               *)
(***************************************************************************)
Unset == FromInteger(0 - 1)

IsSet(tolerance) == ~FLess(tolerance, FromInteger(0))

Parameters ==
  [case_sensitive |-> FALSE, space_change_sensitive |-> FALSE, compare_floats |-> FALSE,
   float_absolute_tolerance |-> Unset, float_relative_tolerance |-> Unset,
   float_tolerance |-> Unset, aborted |-> FALSE]

\* tolerance = std::stold(argv[i + 1]) between its two asserts.
ParseTolerance(p, field, value) ==
  Bind(stold(value), LAMBDA parsed :
    IF IsSet(p[field]) \/ ~has_value(parsed) THEN [p EXCEPT !.aborted = TRUE]
    ELSE IF ~IsSet(parsed.value) THEN [p EXCEPT ![field] = parsed.value, !.aborted = TRUE]
    ELSE [p EXCEPT ![field] = parsed.value])

ParseArg(p, arg) ==
  IF arg.name = "case_sensitive" THEN [p EXCEPT !.case_sensitive = TRUE]
  ELSE IF arg.name = "space_change_sensitive" THEN [p EXCEPT !.space_change_sensitive = TRUE]
  ELSE IF arg.name \in {"float_tolerance", "float_absolute_tolerance",
                        "float_relative_tolerance"}
    THEN ParseTolerance(p, arg.name, arg.value)
  ELSE p

RECURSIVE ParseArgs(_, _)
ParseArgs(p, args) ==
  IF args = <<>> \/ p.aborted THEN p ELSE ParseArgs(ParseArg(p, Head(args)), Tail(args))

\* float_tolerance sets both tolerances; compare_floats if either is set.
SetTolerance(p) ==
  IF p.aborted THEN p
  ELSE IF IsSet(p.float_tolerance)
    THEN IF IsSet(p.float_relative_tolerance) \/ IsSet(p.float_absolute_tolerance)
           THEN [p EXCEPT !.aborted = TRUE]
           ELSE [p EXCEPT !.float_relative_tolerance = p.float_tolerance,
                          !.float_absolute_tolerance = p.float_tolerance,
                          !.compare_floats = TRUE]
  ELSE [p EXCEPT !.compare_floats =
                   IsSet(p.float_relative_tolerance) \/ IsSet(p.float_absolute_tolerance)]

parameters(args) == SetTolerance(ParseArgs(Parameters, args))

(***************************************************************************)
(* Arithmetic of long double on finite operands, exact on the fractions of *)
(* the model: x / 0 is an infinity, 0 / 0 a NaN.                           *)
(***************************************************************************)
FAbs(a) == [a EXCEPT !.num = IF @ < 0 THEN 0 - @ ELSE @]

FSub(a, b) == Finite(a.num * b.den - b.num * a.den, a.den * b.den)

FDiv(a, b) ==
  IF b.num = 0 THEN (IF a.num = 0 THEN NaN ELSE Infinity(a.num < 0))
  ELSE IF b.num < 0 THEN Finite((0 - a.num) * b.den, a.den * (0 - b.num))
  ELSE Finite(a.num * b.den, a.den * b.num)

FLessEq(a, b) == FLess(a, b) \/ FEqual(a, b)

(***************************************************************************)
(* struct diff (default_output_validator.cpp:199-237) inside the process   *)
(* d of the validator: d.p the parameters, d.jury and d.team the token     *)
(* streams, d.res the diff, d.pc the position in check.  An optional       *)
(* string is a sequence of at most one message.                            *)
(***************************************************************************)
Diff == [message |-> <<>>, case_change |-> <<>>, space_change |-> <<>>,
         verdict |-> verdict_AC]

set_diff(d, wanted, given) ==
  [d EXCEPT !.res.message = <<"Got", given, "wanted", wanted>>,
            !.res.verdict = verdict_WA]

\* set_case_change that fails whether or not case_sensitive is set.
set_case_change_always_fails(d, wanted, given) ==
  IF d.res.case_change # <<>> THEN d
  ELSE [d EXCEPT !.res.case_change = <<<<"Case error. Got", given, "wanted", wanted>>>>,
                 !.res.verdict = verdict_WA]

set_case_change(d, wanted, given) ==
  IF d.res.case_change # <<>> THEN d
  ELSE [d EXCEPT !.res.case_change = <<<<"Case error. Got", given, "wanted", wanted>>>>,
                 !.res.verdict = IF d.p.case_sensitive THEN verdict_WA ELSE @]

\* set_space_change that fails whether or not space_change_sensitive is set.
set_space_change_always_fails(d, wanted, given) ==
  IF d.res.space_change # <<>> THEN d
  ELSE [d EXCEPT !.res.space_change =
                    <<<<"Whitespace error. Got", given, "wanted", wanted>>>>,
                 !.res.verdict = verdict_WA]

set_space_change(d, wanted, given) ==
  IF d.res.space_change # <<>> THEN d
  ELSE [d EXCEPT !.res.space_change =
                    <<<<"Whitespace error. Got", given, "wanted", wanted>>>>,
                 !.res.verdict = IF d.p.space_change_sensitive THEN verdict_WA ELSE @]

\* return res; main returns res.verdict as the exit code.
Return(d) == [d EXCEPT !.pc = "returned", !.status = "Exited", !.exit = d.res.verdict]

(***************************************************************************)
(* check (default_output_validator.cpp:239-332).                           *)
(***************************************************************************)
Advance2(d) == [d EXCEPT !.jury = next(@), !.team = next(@)]

\* The tolerance tests of lines 265-280 and the differences they report.
Differences(p, wanted, given) ==
  (IF IsSet(p.float_absolute_tolerance)
     THEN <<<<"Absolute difference", FAbs(FSub(given, wanted))>>>> ELSE <<>>)
  \o (IF IsSet(p.float_relative_tolerance)
        THEN <<<<"Relative difference", FAbs(FDiv(FSub(given, wanted), wanted))>>>>
        ELSE <<>>)

WithinTolerance(p, wanted, given) ==
  \/ /\ IsSet(p.float_absolute_tolerance)
     /\ FLessEq(FAbs(FSub(given, wanted)), p.float_absolute_tolerance)
  \/ /\ IsSet(p.float_relative_tolerance)
     /\ FLessEq(FAbs(FDiv(FSub(given, wanted), wanted)), p.float_relative_tolerance)

compare_as_floats(d, wanted, given) ==
  IF WithinTolerance(d.p, wanted, given) THEN Advance2(d)
  ELSE Bind(set_diff(d, formatted(d.jury.last), formatted(d.team.last)), LAMBDA e :
         Return([e EXCEPT !.res.message = @ \o Differences(d.p, wanted, given)]))

\* One iteration of the loop of lines 250-302.
compare_tokens(d) ==
  IF equal(d.jury.last, d.team.last) THEN Advance2(d)
  ELSE IF token_is_space(d.jury.last) \/ token_is_space(d.team.last)
    THEN Bind(set_space_change(d, formatted(d.jury.last), formatted(d.team.last)),
              LAMBDA e :
                [e EXCEPT !.jury = IF token_is_space(d.jury.last) THEN next(@) ELSE @,
                          !.team = IF token_is_space(d.team.last) THEN next(@) ELSE @])
  ELSE IF /\ d.p.compare_floats
          /\ has_value(token_is_float(d.jury.last))
          /\ has_value(token_is_float(d.team.last))
    THEN compare_as_floats(d, token_is_float(d.jury.last).value,
                           token_is_float(d.team.last).value)
  ELSE IF case_insensitive_equal(d.jury.last, d.team.last)
    THEN Advance2(set_case_change(d, formatted(d.jury.last), formatted(d.team.last)))
  ELSE Return(set_diff(d, formatted(d.jury.last), formatted(d.team.last)))

RECURSIVE compare_streams(_)
compare_streams(d) ==
  IF d.pc = "returned" THEN d
  ELSE IF is_eof(d.jury.last) \/ is_eof(d.team.last) THEN [d EXCEPT !.pc = "trailing"]
  ELSE compare_streams(compare_tokens(d))

\* One iteration of the loop of lines 303-314 that takes every token left
\* of the team output for whitespace.
team_has_more_ignored(d) ==
  [set_space_change(d, formatted(d.jury.last), formatted(d.team.last))
     EXCEPT !.team = next(@)]

\* One iteration of the loop of lines 303-314.
team_has_more(d) ==
  IF ~token_is_space(d.team.last)
    THEN Return([d EXCEPT !.res.message =
                             <<"Team has trailing output", formatted(d.team.last)>>,
                          !.res.verdict = verdict_WA])
  ELSE [set_space_change(d, formatted(d.jury.last), formatted(d.team.last))
          EXCEPT !.team = next(@)]

\* One iteration of the loop of lines 315-326 without jury.next().
jury_has_more_stays(d) ==
  IF ~token_is_space(d.jury.last)
    THEN Return([d EXCEPT !.res.message =
                             <<"Team is missing output (jury had", formatted(d.jury.last)>>,
                          !.res.verdict = verdict_WA])
  ELSE set_space_change(d, formatted(d.jury.last), formatted(d.team.last))

\* One iteration of the loop of lines 315-326.
jury_has_more(d) ==
  IF ~token_is_space(d.jury.last)
    THEN Return([d EXCEPT !.res.message =
                             <<"Team is missing output (jury had", formatted(d.jury.last)>>,
                          !.res.verdict = verdict_WA])
  ELSE [set_space_change(d, formatted(d.jury.last), formatted(d.team.last))
          EXCEPT !.jury = next(@)]

RECURSIVE trailing_team(_)
trailing_team(d) ==
  IF d.pc = "returned" \/ is_eof(d.team.last) THEN d ELSE trailing_team(team_has_more(d))

RECURSIVE trailing_jury(_)
trailing_jury(d) ==
  IF d.pc = "returned" \/ is_eof(d.jury.last) THEN d ELSE trailing_jury(jury_has_more(d))

\* Lines 328-331.
ok(d) ==
  IF d.pc = "returned" THEN d
  ELSE Return([d EXCEPT !.res.message = IF d.res.verdict = verdict_AC THEN <<"ok">> ELSE @])

trailing(d) == ok(trailing_jury(trailing_team(d)))

\* The process of main once the streams are read; a failed assert of the
\* parameter parsing aborts it.
DiffValidator(args, jury_raw, team_raw) ==
  Bind(parameters(args), LAMBDA params :
    [p |-> params, jury |-> set(jury_raw), team |-> set(team_raw), res |-> Diff,
     pc |-> IF params.aborted THEN "returned" ELSE "main",
     status |-> IF params.aborted THEN "Aborted" ELSE "Running",
     exit |-> IF params.aborted THEN 134 ELSE 0])

\* check from its first line to its return, on other team output.
diff_check(d, team_raw) ==
  trailing(compare_streams([d EXCEPT !.jury = set(d.jury.raw), !.team = set(team_raw),
                                     !.res = Diff, !.pc = "main",
                                     !.status = "Running", !.exit = 0]))

(***************************************************************************)
(* Runs of the diff validator: a jury answer and a team output of up to    *)
(* MaxDiff characters under each combination of parameters, then the same  *)
(* jury answer against the team output with one whitespace character       *)
(* inserted or removed where that neither splits nor merges tokens of      *)
(* other characters.  v2 is the process of the second run.                 *)
(***************************************************************************)
JuryChars == {"a", "1", SP}
TeamChars == {"a", "A", "1", SP, NL}
DiffWhitespace == {SP, NL}

ToleranceArgs ==
  {<<>>,
   <<[name |-> "float_absolute_tolerance", value |-> <<"1", "1">>]>>,
   <<[name |-> "float_relative_tolerance", value |-> <<"1">>]>>,
   <<[name |-> "float_tolerance", value |-> <<"1">>]>>}

DiffArgs ==
  {c \o s \o t :
     c \in {<<>>, <<[name |-> "case_sensitive", value |-> <<>>]>>},
     s \in {<<>>, <<[name |-> "space_change_sensitive", value |-> <<>>]>>},
     t \in ToleranceArgs}

InitDiff ==
  /\ phase = "diff"
  /\ prog = <<>>
  /\ v \in {DiffValidator(args, jury_raw, team_raw) :
              args \in DiffArgs,
              jury_raw \in SeqsUpTo(JuryChars, MaxDiff),
              team_raw \in SeqsUpTo(TeamChars, MaxDiff)}
  /\ v2 = Idle

CompareStreams ==
  /\ phase = "diff"
  /\ v.pc = "main"
  /\ v' = compare_streams(v)
  /\ UNCHANGED <<v2, prog, phase>>

Trailing ==
  /\ phase = "diff"
  /\ v.pc = "trailing"
  /\ v' = trailing(v)
  /\ UNCHANGED <<v2, prog, phase>>

BetweenTokens(s, i) == ~(i > 1 /\ i <= Len(s) /\ ~is_space(s[i - 1]) /\ ~is_space(s[i]))

InsertAt(s, i, c) == SubSeq(s, 1, i - 1) \o <<c>> \o SubSeq(s, i, Len(s))

RemoveAt(s, i) == SubSeq(s, 1, i - 1) \o SubSeq(s, i + 1, Len(s))

InsertWhitespace ==
  /\ phase = "diff"
  /\ v.pc = "returned"
  /\ \E i \in 1..(Len(v.team.raw) + 1), c \in DiffWhitespace :
       /\ BetweenTokens(v.team.raw, i)
       /\ v2' = diff_check(v, InsertAt(v.team.raw, i, c))
  /\ phase' = "diff_edited"
  /\ UNCHANGED <<v, prog>>

RemoveWhitespace ==
  /\ phase = "diff"
  /\ v.pc = "returned"
  /\ \E i \in 1..Len(v.team.raw) :
       /\ is_space(v.team.raw[i])
       /\ BetweenTokens(RemoveAt(v.team.raw, i), i)
       /\ v2' = diff_check(v, RemoveAt(v.team.raw, i))
  /\ phase' = "diff_edited"
  /\ UNCHANGED <<v, prog>>

NextDiff == CompareStreams \/ Trailing \/ InsertWhitespace \/ RemoveWhitespace

SpecDiff == InitDiff /\ [][NextDiff]_vars

(***************************************************************************)
(* Runs of the diff validator on one jury token against one team token,    *)
(* numbers in several spellings among them, under each combination of the  *)
(* tolerance options and case_sensitive.                                   *)
(***************************************************************************)
FloatTokens ==
  {<<"0">>, <<"0", ".", "0">>, <<"-", "0">>, <<"1">>, <<"1", ".", "0">>,
   <<"1", ".", "5">>, <<"2">>, <<"-", "1">>, <<"1", "0">>, <<"1", "e", "1">>,
   <<"1", "E", "1">>, <<"+", "1">>, <<".", "5">>, <<"a">>}

FloatToleranceArgs ==
  {<<>>} \cup
  {<<[name |-> n, value |-> t]>> :
     n \in {"float_absolute_tolerance", "float_relative_tolerance", "float_tolerance"},
     t \in {<<"0">>, <<"1">>}} \cup
  {<<[name |-> "float_absolute_tolerance", value |-> <<"0">>],
     [name |-> "float_relative_tolerance", value |-> <<"1">>]>>}

FloatDiffArgs ==
  {c \o t : c \in {<<>>, <<[name |-> "case_sensitive", value |-> <<>>]>>},
            t \in FloatToleranceArgs}

InitFloatDiff ==
  /\ phase = "diff"
  /\ prog = <<>>
  /\ v \in {DiffValidator(args, jury_raw, team_raw) :
              args \in FloatDiffArgs, jury_raw \in FloatTokens, team_raw \in FloatTokens}
  /\ v2 = Idle

NextFloatDiff == CompareStreams \/ Trailing

SpecFloatDiff == InitFloatDiff /\ [][NextFloatDiff]_vars

(***************************************************************************)
(* Runs of the diff validator on streams of up to two words, a number with *)
(* an exponent among them, separated by a space or a newline and ended     *)
(* with or without a newline.                                              *)
(***************************************************************************)
JuryWords == {<<"a">>, <<"b">>, <<"1", "e", "1">>}
TeamWords == JuryWords \cup {<<"A">>, <<"1", "E", "1">>}

Lines(words) ==
  {<<>>} \cup
  {w \o e : w \in words, e \in {<<>>, <<NL>>}} \cup
  {w1 \o <<s>> \o w2 \o e :
     w1 \in words, w2 \in words, s \in {SP, NL}, e \in {<<>>, <<NL>>}}

DeviationArgs ==
  {c \o s \o t :
     c \in {<<>>, <<[name |-> "case_sensitive", value |-> <<>>]>>},
     s \in {<<>>, <<[name |-> "space_change_sensitive", value |-> <<>>]>>},
     t \in {<<>>, <<[name |-> "float_tolerance", value |-> <<"0">>]>>}}

InitDeviation ==
  /\ phase = "diff"
  /\ prog = <<>>
  /\ v \in {DiffValidator(args, jury_raw, team_raw) :
              args \in DeviationArgs,
              jury_raw \in Lines(JuryWords), team_raw \in Lines(TeamWords)}
  /\ v2 = Idle

NextDeviation == CompareStreams \/ Trailing

SpecDeviation == InitDeviation /\ [][NextDeviation]_vars

(***************************************************************************)
(* Tagged reads of one name by a reader: scalar reads and vector reads of  *)
(* integers and of strings over a line of two or three one-digit words.    *)
(***************************************************************************)
ReadStringsCalls ==
  {Call("read_strings", "a", 1, 1, t, 2, "Space", <<"1", "2">>) : t \in TaggedTags}

ReadStrings == CanToken /\ \E d \in ReadStringsCalls : Do(d)

TaggedWords == {<<"1">>, <<"2">>}

TaggedInputs ==
  {w1 \o <<SP>> \o w2 \o <<NL>> : w1 \in TaggedWords, w2 \in TaggedWords} \cup
  {w1 \o <<SP>> \o w2 \o <<SP>> \o w3 \o <<NL>> :
     w1 \in TaggedWords, w2 \in TaggedWords, w3 \in TaggedWords}

InitTagged ==
  /\ phase = "tagged"
  /\ prog = <<>>
  /\ v \in {Validator(w, TRUE, i, FALSE, NoSeed, FALSE) : w \in BOOLEAN, i \in TaggedInputs}
  /\ v2 = Idle

NextTagged == Space \/ ReadInteger \/ ReadString \/ ReadIntegers \/ ReadStrings

SpecTagged == InitTagged /\ [][NextTagged]_vars

(***************************************************************************)
(* Two readers alive in one process, v on one stream and v2 on another.    *)
(* seen, last_seen and integers_seen are static locals of member function  *)
(* templates (validation.h:629-644): the process has one copy of each,     *)
(* which the statics field of both validators shows.  An exit through one  *)
(* validator ends the process for both.                                    *)
(***************************************************************************)
TwoCalls ==
  {Plain("space")} \cup
  {Call("read_integer", "a", 1, 3, t, 0, "Space", <<>>) : t \in {Unique, StrictlyIncreasing}} \cup
  {Call("read_string", "a", 1, 1, t, 0, "Space", <<"1", "2">>) :
     t \in {Unique, StrictlyIncreasing}}

TwoInputs ==
  TaggedWords \cup {w1 \o <<SP>> \o w2 : w1 \in TaggedWords, w2 \in TaggedWords}

InitTwo ==
  /\ phase = "two"
  /\ prog = <<>>
  /\ v \in {InputValidator(i) : i \in TwoInputs}
  /\ v2 \in {InputValidator(i) : i \in TwoInputs}

\* The other validator once a call through x has returned or exited.
InProcessOf(other, x) ==
  [other EXCEPT !.statics = x.statics,
                !.status = IF Active(x) THEN @ ELSE x.status,
                !.exit = IF Active(x) THEN @ ELSE x.exit]

CanCallTwo == phase = "two" /\ Active(v) /\ Active(v2) /\ Len(prog) < MaxProg

CallFirst ==
  /\ CanCallTwo
  /\ \E d \in TwoCalls : \E a \in {Apply(v, d)} :
       /\ v' = a.x
       /\ v2' = InProcessOf(v2, a.x)
       /\ prog' = Append(prog, [call |-> d, ret |-> a.r, via |-> 1])
  /\ UNCHANGED phase

CallSecond ==
  /\ CanCallTwo
  /\ \E d \in TwoCalls : \E a \in {Apply(v2, d)} :
       /\ v2' = a.x
       /\ v' = InProcessOf(v, a.x)
       /\ prog' = Append(prog, [call |-> d, ret |-> a.r, via |-> 2])
  /\ UNCHANGED phase

NextTwo == CallFirst \/ CallSecond

SpecTwo == InitTwo /\ [][NextTwo]_vars

(***************************************************************************)
(* Generation with parameter expressions: an input validator run with a    *)
(* seed and at most one expression, registered for the name "a", calls     *)
(* read_integer("a", low, high) and space().                               *)
(***************************************************************************)
\* InputValidator(argc, argv) with --generate seed and -name expression pairs
\* (validation.h:1413-1447).
InputValidator_generate(seed, params_) ==
  [Validator(TRUE, TRUE, <<>>, FALSE, seed, FALSE) EXCEPT !.params = params_]

ParamExprs ==
  {Param("const", c, 0, 0) : c \in {-4, 1, 5}}
    \cup {Param("min", 0, 0, 0), Param("max", 0, 0, 0), Param("uniform", 0, 0, 0)}
    \cup {Param("range", rg[1], rg[2], 0) : rg \in {<<2, 6>>, <<0, 1>>, <<3, 6>>}}
    \cup {Param("steprange", sr[1], sr[2], sr[3]) :
            sr \in {<<0, 6, 3>>, <<0, 6, 2>>, <<2, 6, 3>>, <<-3, 3, 2>>}}

InitParam ==
  /\ phase = "param"
  /\ prog = <<>>
  /\ v \in {InputValidator_generate(s, NoParams) : s \in Seeds}
       \cup {InputValidator_generate(s, [n \in {"a"} |-> p]) : s \in Seeds, p \in ParamExprs}
  /\ v2 = Idle

NextParam == ReadInteger \/ Space

SpecParam == InitParam /\ [][NextParam]_vars

(***************************************************************************)
(* Lines: a read-mode validator in either whitespace mode over a short     *)
(* input, and the calls read_line and space().                             *)
(***************************************************************************)
LineChars == {"a", "b", SP, NL}

LineInputs == SeqsUpTo(LineChars, MaxIn)

ReadLineCalls ==
  {Call("read_line", "a", rg[1], rg[2], Arbitrary, 0, "Space", chars) :
     rg \in {<<0, 2>>, <<1, 2>>, <<1, 1>>}, chars \in {<<>>, <<"a">>}}

InitLine ==
  /\ phase = "line"
  /\ prog = <<>>
  /\ v \in {Validator(w, TRUE, i, FALSE, NoSeed, FALSE) : w \in BOOLEAN, i \in LineInputs}
  /\ v2 = Idle

ReadLine == CanCall /\ \E d \in ReadLineCalls : Do(d)

NextLine == ReadLine \/ Space

SpecLine == InitLine /\ [][NextLine]_vars

(***************************************************************************)
(* check of the diff validator one loop iteration at a time: an action for *)
(* an iteration of the lockstep loop, for its exit, for an iteration of    *)
(* either trailing loop and for the final return.  check is sequential     *)
(* code that nothing suspends, so a step that is enabled is taken: the     *)
(* fair specification states weak fairness of the next-state relation.     *)
(***************************************************************************)
StepJuryChars == {"a", "1", SP}
StepTeamChars == {"a", "A", "1", SP}

StepArgs ==
  {<<>>,
   <<[name |-> "space_change_sensitive", value |-> <<>>]>>,
   <<[name |-> "float_tolerance", value |-> <<"1">>]>>}

InitDiffSteps ==
  /\ phase = "diff_steps"
  /\ prog = <<>>
  /\ v \in {DiffValidator(args, jury_raw, team_raw) :
              args \in StepArgs,
              jury_raw \in SeqsUpTo(StepJuryChars, MaxDiff),
              team_raw \in SeqsUpTo(StepTeamChars, MaxDiff + 1)}
  /\ v2 = Idle

\* while (not jury->is_eof() and not team->is_eof()) { ... }
CompareTokens ==
  /\ phase = "diff_steps"
  /\ v.pc = "main"
  /\ ~is_eof(v.jury.last) /\ ~is_eof(v.team.last)
  /\ v' = compare_tokens(v)
  /\ UNCHANGED <<v2, prog, phase>>

\* The lockstep loop ends when either stream is at its end.
EndOfStream ==
  /\ phase = "diff_steps"
  /\ v.pc = "main"
  /\ is_eof(v.jury.last) \/ is_eof(v.team.last)
  /\ v' = [v EXCEPT !.pc = "trailing"]
  /\ UNCHANGED <<v2, prog, phase>>

\* while (not team->is_eof()) { ... }
TeamHasMore ==
  /\ phase = "diff_steps"
  /\ v.pc = "trailing"
  /\ ~is_eof(v.team.last)
  /\ v' = team_has_more(v)
  /\ UNCHANGED <<v2, prog, phase>>

\* while (not jury->is_eof()) { ... }, entered once the team loop has ended.
JuryHasMore ==
  /\ phase = "diff_steps"
  /\ v.pc = "trailing"
  /\ is_eof(v.team.last) /\ ~is_eof(v.jury.last)
  /\ v' = jury_has_more(v)
  /\ UNCHANGED <<v2, prog, phase>>

Ok ==
  /\ phase = "diff_steps"
  /\ v.pc = "trailing"
  /\ is_eof(v.team.last) /\ is_eof(v.jury.last)
  /\ v' = ok(v)
  /\ UNCHANGED <<v2, prog, phase>>

NextDiffSteps == CompareTokens \/ EndOfStream \/ TeamHasMore \/ JuryHasMore \/ Ok

SpecDiffSteps == InitDiffSteps /\ [][NextDiffSteps]_vars

SpecDiffStepsFair == SpecDiffSteps /\ WF_vars(NextDiffSteps)

(***************************************************************************)
(* Properties.                                                             *)
(***************************************************************************)
Last(s) == s[Len(s)]
Has(s, e) == \E i \in 1..Len(s) : s[i] = e
Count(s, e) == Cardinality({i \in 1..Len(s) : s[i] = e})

\* Nothing but what the end-of-stream check accepts is left of the input:
\* nothing at all for a strict reader, whitespace for a lenient one.
AtEndOfStream(x) ==
  IF x.ws THEN x.pos >= Len(x.inp)
  ELSE \A i \in (x.pos + 1)..Len(x.inp) : isspace(x.inp[i])

LogStep(x) == IF x.constraints_file_path THEN <<"write_constraints">> ELSE <<>>

\* C1: in read mode the destructor checks the end of the stream, then
\* writes the bounds log if a path is configured, then exits with 42; it
\* exits with 42 exactly when the end-of-stream check succeeds and with 43,
\* without log and without AC, otherwise.
C1_DestructorOrder ==
  [][(Destruct /\ ~v.gen) =>
       /\ v'.status = "Exited"
       /\ IF AtEndOfStream(v)
            THEN /\ v'.exit = ret_AC
                 /\ v'.events = v.events \o <<"eof">> \o LogStep(v) \o <<"AC">>
                 /\ v'.log.written = v.constraints_file_path
                 /\ v.constraints_file_path => v'.log.lines = v.bounds
            ELSE /\ v'.exit = ret_WA
                 /\ v'.events = v.events \o <<"WA">>
                 /\ ~v'.log.written]_vars

C1_Witness ==
  /\ ~v.gen
  /\ v.exit = ret_AC
  /\ v.events = <<"eof", "write_constraints", "AC">>
  /\ v.log.written
  /\ DOMAIN v.log.lines # {}
  /\ Len(prog) > 1

\* C2: in read mode a process that has stopped has exited with 42 or 43; it
\* has exited with 43 exactly when WA ran, and then WA ran once, was the last
\* step of the process, and called the installed handler exactly once.
C2_SingleFailureRoutine ==
  ~v.gen =>
    /\ v.status \in {"Active", "Exited"}
    /\ v.status = "Exited" => v.exit \in {ret_AC, ret_WA}
    /\ v.status = "Active" => v.exit = 0
    /\ (v.exit = ret_WA) <=> Has(v.events, "WA")
    /\ IF Has(v.events, "WA")
         THEN /\ v.status = "Exited"
              /\ Last(v.events) = "WA"
              /\ Count(v.events, "WA") = 1
              /\ ~Has(v.events, "AC")
              /\ v.handler_calls = <<v.WA_handler>>
         ELSE v.handler_calls = <<>>

C2_Witness ==
  /\ ~v.gen
  /\ v.exit = ret_WA
  /\ v.WA_handler = 1
  /\ v.handler_calls = <<1>>
  /\ v.pos > 0
  /\ Len(prog) > 1

\* C3: with a constraints-log path configured, a process that has exited
\* with 42 has written the bounds log.
C3_LogBeforeAC ==
  (v.constraints_file_path /\ v.exit = ret_AC) => v.log.written

C5_RoundTrip ==
  phase = "done_read" => (v2.status = "Exited" /\ v2.exit = ret_AC)

C7_EqualOutputsEqualSeeds ==
  (/\ phase = "done_gen"
   /\ v2.status = "Destroyed"
   /\ Len(prog) > 0
   /\ v.out # <<>>
   /\ v2.out = v.out) => v2.seed = v.seed

\* A call that draws nothing from the generator.
NoSampling(d) ==
  \/ d.op \in {"space", "newline"}
  \/ d.op = "test_strings" /\ Len(d.text) = 1
  \/ d.op = "read_integer" /\ d.low = d.high /\ d.tag = Arbitrary

\* C7: the output does not determine the seed: a program none of whose
\* calls draws from the generator writes the same output for every seed.
C7_SeedIndependentWithoutSampling ==
  (phase = "done_gen" /\ \A i \in 1..Len(prog) : NoSampling(prog[i].call)) =>
    (v2.out = v.out /\ v2.status = "Destroyed")

C7_Witness ==
  /\ phase = "done_gen"
  /\ v2.seed # v.seed
  /\ \A i \in 1..Len(prog) : NoSampling(prog[i].call)
  /\ \E i \in 1..Len(prog) : prog[i].call.op = "read_integer"
  /\ \E i \in 1..Len(prog) : prog[i].call.op = "test_strings"
  /\ v2.out = v.out
  /\ Len(v.out) = 3

BoundsOk(b) ==
  /\ b.min >= b.low
  /\ b.max <= b.high
  /\ b.has_min => b.min = b.low
  /\ b.has_max => b.max = b.high

RangesOf(n) ==
  {<<prog[i].call.low, prog[i].call.high>> :
     i \in {j \in 1..Len(prog) : /\ prog[j].call.op \in {"read_integer", "read_integers"}
                                 /\ prog[j].call.name = n}}

UniqueScalar(i, n) ==
  /\ prog[i].call.op = "read_integer"
  /\ prog[i].call.tag = Unique
  /\ prog[i].call.name = n

\* C9 as claimed: in read mode the successful Unique scalar reads of one
\* name returned pairwise distinct values.
C9_UniqueScalarsDistinct ==
  ~v.gen =>
    \A n \in Names : \A i, j \in 1..Len(prog) :
      (i < j /\ UniqueScalar(i, n) /\ UniqueScalar(j, n)) => prog[i].ret # prog[j].ret

VectorRead(k, n) == prog[k].call.op = "read_integers" /\ prog[k].call.name = n

\* C9: in read mode two successful Unique scalar reads of one name with no
\* vector read of that name between them returned distinct values.
C9_UniqueScalarsDistinctBetweenResets ==
  ~v.gen =>
    \A n \in Names : \A i, j \in 1..Len(prog) :
      (/\ i < j
       /\ UniqueScalar(i, n)
       /\ UniqueScalar(j, n)
       /\ \A k \in (i + 1)..(j - 1) : ~VectorRead(k, n)) => prog[i].ret # prog[j].ret

C9_Witness ==
  /\ ~v.gen
  /\ Len(prog) = 3
  /\ UniqueScalar(1, "a")
  /\ UniqueScalar(3, "a")
  /\ prog[2].call.op = "space"
  /\ prog[1].ret # prog[3].ret

Distinct(s) == \A i, j \in 1..Len(s) : i # j => s[i] # s[j]

InRange(s, low, high) == \A i \in 1..Len(s) : low <= s[i] /\ s[i] <= high

UniqueVectorOk(e) ==
  (/\ e.call.op = "read_integers"
   /\ e.call.tag = Unique
   /\ e.call.count <= e.call.high - e.call.low + 1) =>
     /\ Len(e.ret) = e.call.count
     /\ Distinct(e.ret)
     /\ InRange(e.ret, e.call.low, e.call.high)

UniqueScalars(n) == {i \in 1..Len(prog) : UniqueScalar(i, n)}

UniqueScalarsOk(n) ==
  Cardinality({<<prog[i].call.low, prog[i].call.high>> : i \in UniqueScalars(n)}) <= 1 =>
    \A i \in UniqueScalars(n) :
      /\ prog[i].call.low <= prog[i].ret
      /\ prog[i].ret <= prog[i].call.high
      /\ \A j \in UniqueScalars(n) : i # j => prog[i].ret # prog[j].ret

\* C10: in generator mode a Unique read_integers call of count values over
\* [low, high] with count <= high - low + 1 returns count pairwise distinct
\* values inside [low, high], and the Unique read_integer calls of one name
\* over one range return pairwise distinct values inside the range.
C10_GenUniqueDistinct ==
  v.gen =>
    /\ \A i \in 1..Len(prog) : UniqueVectorOk(prog[i])
    /\ \A n \in Names : UniqueScalarsOk(n)

C10_Witness ==
  /\ v.gen
  /\ Len(prog) = 3
  /\ prog[1].call.op = "read_integers"
  /\ prog[1].call.tag = Unique
  /\ 2 * prog[1].call.count < prog[1].call.high - prog[1].call.low
  /\ Distinct(prog[1].ret)
  /\ UniqueScalar(2, "a")
  /\ UniqueScalar(3, "a")
  /\ prog[2].call.low = prog[3].call.low
  /\ prog[2].ret # prog[3].ret
  /\ v.statics.integers_seen["a"].use_remaining

StepsUp(s) == \A i \in 1..(Len(s) - 1) : s[i + 1] - s[i] >= 1

StrictVector(e) ==
  /\ e.call.op = "read_integers"
  /\ e.call.tag \in {StrictlyIncreasing, StrictlyDecreasing}
  /\ e.call.count <= e.call.high - e.call.low + 1

\* What the same call returns from the same generator with the tag
\* StrictlyIncreasing.
AsIncreasing(x, d) ==
  read_integers(x, d.name, d.count, d.low, d.high, StrictlyIncreasing, d.sep).r

\* C11: in generator mode a read_integers call with a strict monotone tag and
\* count <= high - low + 1 that returns gives count values inside [low, high];
\* with StrictlyIncreasing every value exceeds the one before it by at least
\* 1, and with StrictlyDecreasing the value is the reverse of what the same
\* call returns with StrictlyIncreasing from the same generator state.
C11_StrictVectorSteps ==
  [][(v.gen /\ Len(prog') = Len(prog) + 1 /\ StrictVector(Last(prog'))) =>
       /\ Len(Last(prog').ret) = Last(prog').call.count
       /\ InRange(Last(prog').ret, Last(prog').call.low, Last(prog').call.high)
       /\ Last(prog').call.tag = StrictlyIncreasing => StepsUp(Last(prog').ret)
       /\ Last(prog').call.tag = StrictlyDecreasing =>
            /\ StepsUp(reverse(Last(prog').ret))
            /\ Last(prog').ret = reverse(AsIncreasing(v, Last(prog').call))]_vars

C11_Witness ==
  /\ v.gen
  /\ Len(prog) = 2
  /\ StrictVector(prog[1])
  /\ prog[1].call.tag = StrictlyDecreasing
  /\ prog[1].ret = <<3, 1>>
  /\ StrictVector(prog[2])
  /\ prog[2].call.tag = StrictlyIncreasing
  /\ prog[2].ret = <<1, 2, 3>>

\* The step is a call of op, in the specification that records every call.
StepOf(op) == Len(prog') = Len(prog) + 1 /\ Last(prog').call.op = op

NextIs(x, c) == IF AtEnd(x) THEN FALSE ELSE NextChar(x) = c

DOSLineEnding == <<"newline", "DOS line ending (\\r)">>

ExitedWA(x) == x.status = "Exited" /\ x.exit = ret_WA

\* C13: in read mode with WS=true, space() returns exactly when the next byte
\* is ' ' and newline() exactly when it is '\n', and the call has then
\* consumed that one byte; otherwise the process exits with 43, and the
\* message of newline() names a DOS line ending exactly when the byte is '\r'.
C13_StrictSpaceNewline ==
  [][(v.ws /\ (StepOf("space") \/ StepOf("newline"))) =>
       /\ Active(v') <=> NextIs(v, IF StepOf("space") THEN SP ELSE NL)
       /\ Active(v') => v'.pos = v.pos + 1 /\ v'.cerr = v.cerr
       /\ ~Active(v') => ExitedWA(v') /\ v'.pos <= v.pos + 1
       /\ (StepOf("newline") /\ ~Active(v')) =>
            (NextIs(v, CR) <=> (v'.cerr = Append(v.cerr, DOSLineEnding)))]_vars

C13_Witness ==
  /\ phase = "stream"
  /\ v.ws
  /\ Len(prog) = 3
  /\ prog[1].call.op = "space"
  /\ prog[2].call.op = "newline"
  /\ prog[3].call.op = "newline"
  /\ v.pos = 3
  /\ ExitedWA(v)
  /\ Last(v.cerr) = DOSLineEnding

Remaining(x) == SubSeq(x.inp, x.pos + 1, Len(x.inp))

OnlyWhitespace(s) == \A i \in 1..Len(s) : isspace(s[i])

\* What an eof() step does when it fails, and on a stream that has ended.
EofFailsWithWA ==
  ~Active(v') => ExitedWA(v') /\ Len(v'.cerr) = Len(v.cerr) + 1 /\ Last(v'.cerr)[1] = "EOF"

EofAtEndIsNoOp ==
  Remaining(v) = <<>> => Active(v') /\ v'.pos = v.pos /\ v'.cerr = v.cerr

\* C14: in read mode, in either whitespace mode, eof() returns exactly when
\* no non-whitespace byte remains in the input and otherwise exits with 43
\* and the message "Expected EOF"; on a stream at its end it returns and
\* leaves the position alone, however often it is called.
C14_EofIffOnlyWhitespace ==
  [][StepOf("eof") =>
       /\ Active(v') <=> OnlyWhitespace(Remaining(v))
       /\ EofFailsWithWA
       /\ EofAtEndIsNoOp]_vars

\* C14, amended: with WS=true eof() returns exactly when no byte remains,
\* with WS=false exactly when no non-whitespace byte remains; otherwise it
\* exits with 43 and "Expected EOF", and on a stream at its end it returns
\* and leaves the position alone, however often it is called.
C14_EofIffEnded ==
  [][StepOf("eof") =>
       /\ Active(v') <=> IF v.ws THEN Remaining(v) = <<>>
                                 ELSE OnlyWhitespace(Remaining(v))
       /\ EofFailsWithWA
       /\ EofAtEndIsNoOp]_vars

C14_Witness ==
  /\ phase = "stream"
  /\ ~v.ws
  /\ Active(v)
  /\ v.inp = <<SP, NL>>
  /\ v.pos = 2
  /\ Len(prog) = 3
  /\ \A i \in 1..3 : prog[i].call.op = "eof"

\* The position of the next informative byte: every byte counts with
\* WS=true, whitespace does not with WS=false.
Informative(x) == IF x.ws THEN x.pos ELSE WsEnd(x.inp, x.pos)

CaseEq(x, a, c) == IF x.case_sensitive THEN a = c ELSE tolower(a) = tolower(c)

PeekAnswer(x, c) ==
  IF Informative(x) >= Len(x.inp) THEN FALSE
  ELSE CaseEq(x, x.inp[Informative(x) + 1], c)

\* C15: in read mode, in both whitespace modes, the stream position after
\* peek(c) is the position before it, and peek returns true exactly when the
\* next informative byte equals c under the case policy.
C15_PeekKeepsPosition ==
  [][StepOf("peek") =>
       /\ v'.pos = v.pos
       /\ Last(prog').ret = PeekAnswer(v, Last(prog').call.text[1])]_vars

\* C15, amended: peek(c) returns, extracts no non-whitespace byte and
\* leaves the position at the next informative byte, which with WS=true is
\* the position before the call and with WS=false lies behind the whitespace
\* in front of the next token; it returns true exactly when that byte equals
\* c under the case policy.
C15_PeekStopsAtInformative ==
  [][StepOf("peek") =>
       /\ Active(v')
       /\ v'.pos = Informative(v)
       /\ v.ws => v'.pos = v.pos
       /\ OnlyWhitespace(SubSeq(v.inp, v.pos + 1, v'.pos))
       /\ Last(prog').ret = PeekAnswer(v, Last(prog').call.text[1])]_vars

C15_Witness ==
  /\ phase = "stream"
  /\ ~v.ws
  /\ ~v.case_sensitive
  /\ v.inp = <<SP, "A">>
  /\ Len(prog) = 2
  /\ prog[1].call.op = "peek"
  /\ prog[1].ret = TRUE
  /\ prog[2].call.op = "peek"
  /\ prog[2].call.text = <<SP>>
  /\ prog[2].ret = FALSE
  /\ v.pos = 1

\* The grammar -?[1-9][0-9]* or "0", and the value of a token of it.
Unsigned(s) == IF s # <<>> /\ s[1] = "-" THEN SubSeq(s, 2, Len(s)) ELSE s

IntegerGrammar(s) ==
  \/ s = <<"0">>
  \/ /\ Unsigned(s) # <<>>
     /\ Unsigned(s)[1] \in {"1", "2", "3", "4", "5", "6", "7", "8", "9"}
     /\ \A i \in 1..Len(Unsigned(s)) : isdigit(Unsigned(s)[i])

IntegerValue(s) ==
  IF s[1] = "-" THEN 0 - DigitsValue(Unsigned(s), 1, Len(Unsigned(s)) + 1)
  ELSE DigitsValue(s, 1, Len(s) + 1)

FitsLongLong(n) == LLONG_MIN <= n /\ n <= LLONG_MAX

\* C16: in read mode the integer reader returns for a token exactly when the
\* token is "0" or matches -?[1-9][0-9]* and its value fits a long long, and
\* it then returns that value; for every other token, the empty one
\* included, the process exits with 43.
C16_IntegerGrammar ==
  [][(phase = "token" /\ StepOf("read_integer") /\ v.pos = 0) =>
       /\ Active(v') <=> (IntegerGrammar(v.inp) /\ FitsLongLong(IntegerValue(v.inp)))
       /\ Active(v') => Last(prog').ret = IntegerValue(v.inp) /\ v'.pos = Len(v.inp)
       /\ ~Active(v') => ExitedWA(v')]_vars

C16_Witness ==
  /\ phase = "token"
  /\ v.inp = <<"-", "8">>
  /\ Len(prog) = 2
  /\ prog[1].call.op = "read_integer"
  /\ prog[1].ret = LLONG_MIN
  /\ ExitedWA(v)

\* An optional sign, digits with an optional point among them, and an
\* optional exponent [eE][+-]?digits, with nothing in front or behind.
MantissaEnd(s, b) ==
  DigitsEnd(s, IF IsAt(s, DigitsEnd(s, b), {"."}) THEN DigitsEnd(s, b) + 1 ELSE DigitsEnd(s, b))

MantissaDigits(s, b) ==
  (MantissaEnd(s, b) - b) - (IF IsAt(s, DigitsEnd(s, b), {"."}) THEN 1 ELSE 0)

ExponentStart(s, m) == IF IsAt(s, m + 1, {"+", "-"}) THEN m + 2 ELSE m + 1

RealGrammarFrom(s, b) ==
  /\ MantissaDigits(s, b) >= 1
  /\ \/ MantissaEnd(s, b) = Len(s) + 1
     \/ /\ IsAt(s, MantissaEnd(s, b), {"e"})
        /\ DigitsEnd(s, ExponentStart(s, MantissaEnd(s, b))) = Len(s) + 1
        /\ ExponentStart(s, MantissaEnd(s, b)) <= Len(s)

RealGrammar(s) == RealGrammarFrom(s, IF IsAt(s, 1, {"+", "-"}) THEN 2 ELSE 1)

LowerWord(s) == [i \in 1..Len(s) |-> tolower(s[i])]

NonFiniteWords ==
  {<<"n", "a", "n">>, <<"i", "n", "f">>, <<"-", "i", "n", "f">>, <<"+">>}

\* C17: in read mode read_float, whatever the declared range, exits with 43
\* on the tokens NaN, Inf and -Inf in any letter case and on a '+' without
\* digits, and returns only for a token that is in full an optional sign, a
\* decimal with an optional fractional part and an optional exponent.
C17_RealGrammar ==
  [][(phase = "token" /\ StepOf("read_float") /\ v.pos = 0) =>
       /\ LowerWord(v.inp) \in NonFiniteWords => ExitedWA(v')
       /\ Active(v') => RealGrammar(v.inp)]_vars

\* Call k of prog returned.
Returned(k) == k < Len(prog) \/ Active(v)

ScalarOps == {"read_integer", "read_string"}

MonotoneScalar(k) ==
  /\ Returned(k)
  /\ prog[k].call.op \in ScalarOps
  /\ prog[k].call.tag \in MonotoneTags

\* val may follow last under tag: integers by <, strings by operator<.
Follows(op, tag, last, val) ==
  /\ tag.increasing => IF op = "read_integer" THEN val >= last ELSE ~StrLess(val, last)
  /\ tag.decreasing => IF op = "read_integer" THEN val <= last ELSE ~StrLess(last, val)
  /\ tag.strict => val # last

\* j is the next monotone scalar read of the name and value type of i.
NextMonotoneScalar(i, j) ==
  /\ i < j
  /\ MonotoneScalar(i)
  /\ MonotoneScalar(j)
  /\ prog[i].call.op = prog[j].call.op
  /\ prog[i].call.name = prog[j].call.name
  /\ \A k \in (i + 1)..(j - 1) :
       ~(MonotoneScalar(k) /\ prog[k].call.op = prog[i].call.op
                           /\ prog[k].call.name = prog[i].call.name)

RECURSIVE Recorded(_, _, _)
Recorded(op, name, k) ==
  IF k = 0 THEN NoValue
  ELSE IF ~Returned(k) \/ prog[k].call.name # name THEN Recorded(op, name, k - 1)
  ELSE IF prog[k].call.op = op
    THEN IF prog[k].call.tag.increasing \/ prog[k].call.tag.decreasing
              \/ (op = "read_integer" /\ ~prog[k].call.tag.unique)
           THEN <<prog[k].ret>>
           ELSE Recorded(op, name, k - 1)
  ELSE IF op = "read_integer" /\ prog[k].call.op = "read_integers"
    THEN IF prog[k].call.tag.unique \/ prog[k].ret = <<>>
           THEN NoValue
           ELSE <<Last(prog[k].ret)>>
  ELSE Recorded(op, name, k - 1)

SepChar(sep) == IF sep = "Space" THEN SP ELSE NL

\* The values as text with one separator between two of them.
RECURSIVE Format(_, _)
Format(vals, sep) ==
  IF vals = <<>> THEN <<>>
  ELSE IF Len(vals) = 1 THEN IntChars(vals[1])
  ELSE IntChars(vals[1]) \o <<SepChar(sep)>> \o Format(Tail(vals), sep)

\* The step is the newline() of the program read_integers(a, 3, low, high,
\* StrictlyIncreasing, sep); newline() run by a generator.
StrictVectorThenNewline ==
  /\ v.gen
  /\ StepOf("newline")
  /\ Len(prog) = 1
  /\ prog[1].call.op = "read_integers"
  /\ prog[1].call.tag = StrictlyIncreasing
  /\ prog[1].call.count = 3

ThreeIncreasing ==
  /\ Len(prog[1].ret) = 3
  /\ StepsUp(prog[1].ret)
  /\ InRange(prog[1].ret, prog[1].call.low, prog[1].call.high)

\* What a vector read that returns has extracted from the input of a strict
\* reader: the values, one separator byte between two, and a newline.
VectorReadExtracts ==
  (~v.gen /\ v.ws /\ StepOf("read_integers") /\ Active(v')) =>
     /\ Len(Last(prog').ret) = Last(prog').call.count
     /\ SubSeq(v.inp, v.pos + 1, v'.pos) =
          Format(Last(prog').ret, Last(prog').call.sep) \o <<NL>>

\* C19: in generator mode, for every seed, the program read_integers(a, 3,
\* low, high, StrictlyIncreasing); newline() writes exactly three tokens with
\* one separator between two of them and then a newline, the tokens being
\* strictly increasing integers of [low, high]; and a vector read of a strict
\* reader requires one byte of the selected separator between two elements
\* and a newline behind the last.
C19_VectorLineOnce ==
  [][/\ StrictVectorThenNewline =>
          /\ ThreeIncreasing
          /\ v'.out = Format(prog[1].ret, prog[1].call.sep) \o <<NL>>
     /\ VectorReadExtracts]_vars

\* C19, amended: the output of that program is the three tokens, one
\* separator between two of them, and two newlines: the one read_integers
\* writes behind the last element and the one of newline().
C19_VectorLineThenNewline ==
  [][/\ StrictVectorThenNewline =>
          /\ ThreeIncreasing
          /\ v.out = Format(prog[1].ret, prog[1].call.sep) \o <<NL>>
          /\ v'.out = Format(prog[1].ret, prog[1].call.sep) \o <<NL, NL>>
     /\ VectorReadExtracts]_vars

C19_Witness ==
  /\ phase = "vector"
  /\ v.gen
  /\ Active(v)
  /\ Len(prog) = 2
  /\ prog[1].call.op = "read_integers"
  /\ prog[1].call.sep = "Space"
  /\ prog[1].ret = <<1, 3, 5>>
  /\ prog[2].call.op = "newline"
  /\ v.out = <<"1", SP, "3", SP, "5", NL, NL>>


Leftover(d) ==
  IF is_eof(d.team.last) THEN d.jury.last \o d.jury.todo ELSE d.team.last \o d.team.todo

OnlySpaces(s) == \A i \in 1..Len(s) : is_space(s[i])

\* C20: once a stream has reached EOF, a token of the other stream that is
\* not whitespace gives the verdict 43 under all parameters; tokens of
\* whitespace alone give 43 if space_change_sensitive is set and leave the
\* verdict as it was if not.
C20_TrailingOutput ==
  [][(phase = "diff" /\ v.pc = "trailing") =>
       /\ is_eof(v.jury.last) \/ is_eof(v.team.last)
       /\ v'.pc = "returned"
       /\ v'.exit = v'.res.verdict
       /\ IF ~OnlySpaces(Leftover(v)) THEN v'.res.verdict = verdict_WA
          ELSE IF Leftover(v) # <<>> /\ v.p.space_change_sensitive
            THEN v'.res.verdict = verdict_WA
          ELSE v'.res.verdict = v.res.verdict]_vars

\* The team output goes on behind whitespace after the end of the jury
\* answer, with none of the parameters set.
C20_Witness ==
  /\ phase = "diff"
  /\ v.pc = "returned"
  /\ v.p = Parameters
  /\ Len(v.res.message) = 2
  /\ v.res.message[1] = "Team has trailing output"
  /\ v.res.space_change # <<>>
  /\ v.res.verdict = verdict_WA


\* Both tokens are read as numbers by the float branch of check.
FloatLike(jury_raw, team_raw) ==
  /\ has_value(token_is_float(jury_raw))
  /\ has_value(token_is_float(team_raw))

\* |team - jury| <= abs_tol, or |team - jury| <= rel_tol * |jury| for a jury
\* value other than 0, each test only with its tolerance set.
Tolerated(p, jury, team) ==
  \/ /\ IsSet(p.float_absolute_tolerance)
     /\ FLessEq(FAbs(FSub(team, jury)), p.float_absolute_tolerance)
  \/ /\ IsSet(p.float_relative_tolerance)
     /\ jury.num # 0
     /\ FLessEq(FAbs(FSub(team, jury)),
                Finite(p.float_relative_tolerance.num * FAbs(jury).num,
                       p.float_relative_tolerance.den * jury.den))

\* C21: with a tolerance set, two float-like tokens that are not identical
\* are accepted if and only if their difference passes the absolute or the
\* relative test, and two spellings of one value are accepted under every
\* tolerance that is set.
C21_FloatTolerance ==
  (/\ phase = "diff"
   /\ v.pc = "returned"
   /\ v.p.compare_floats
   /\ v.jury.raw # v.team.raw
   /\ FloatLike(v.jury.raw, v.team.raw)) =>
    Bind(token_is_float(v.jury.raw).value, LAMBDA jury :
      Bind(token_is_float(v.team.raw).value, LAMBDA team :
        /\ jury.num # 0 => (v.res.verdict = verdict_AC <=> Tolerated(v.p, jury, team))
        /\ FEqual(jury, team) => v.res.verdict = verdict_AC))


\* The words of a stream: its tokens other than whitespace, in order.
RECURSIVE WordsFrom(_, _)
WordsFrom(ts, acc) ==
  IF is_eof(ts.last) THEN acc
  ELSE WordsFrom(next(ts), IF token_is_space(ts.last) THEN acc ELSE Append(acc, ts.last))

Words(raw) == WordsFrom(set(raw), <<>>)

DifferOnlyInCase(jury_raw, team_raw) ==
  /\ jury_raw # team_raw
  /\ case_insensitive_equal(jury_raw, team_raw)

DifferOnlyInWhitespace(jury_raw, team_raw) ==
  /\ jury_raw # team_raw
  /\ Words(jury_raw) = Words(team_raw)

Marched(d) == is_eof(d.jury.last) /\ is_eof(d.team.last)

\* A recorded deviation that the parameters do not tolerate has made the
\* verdict 43 for good.
NeverReset(d) ==
  /\ (d.res.case_change # <<>> /\ d.p.case_sensitive) => d.res.verdict = verdict_WA
  /\ (d.res.space_change # <<>> /\ d.p.space_change_sensitive) => d.res.verdict = verdict_WA

\* C22 as stated: streams that differ only in letter case get 43 if and
\* only if case_sensitive is set, streams that differ only in whitespace if
\* and only if space_change_sensitive is set; the march goes on past the
\* deviation and a verdict of 43 is never reset.
C22_ToleratedDeviations ==
  phase = "diff" =>
    /\ NeverReset(v)
    /\ (v.pc = "returned" /\ DifferOnlyInCase(v.jury.raw, v.team.raw)) =>
         /\ v.res.verdict = verdict_WA <=> v.p.case_sensitive
         /\ Marched(v)
    /\ (v.pc = "returned" /\ DifferOnlyInWhitespace(v.jury.raw, v.team.raw)) =>
         /\ v.res.verdict = verdict_WA <=> v.p.space_change_sensitive
         /\ Marched(v)

\* The pair of words is compared by the float branch of check.
ComparedAsFloats(p, jury_word, team_word) ==
  p.compare_floats /\ FloatLike(jury_word, team_word)

PassesAsFloats(p, jury_word, team_word) ==
  WithinTolerance(p, token_is_float(jury_word).value, token_is_float(team_word).value)

\* Some pair of words that differ is a case change, not a pair of numbers.
HasCaseChange(p, jury_raw, team_raw) ==
  \E i \in 1..Len(Words(jury_raw)) :
    /\ Words(jury_raw)[i] # Words(team_raw)[i]
    /\ ~ComparedAsFloats(p, Words(jury_raw)[i], Words(team_raw)[i])

\* Some pair of words that differ is a pair of numbers out of tolerance.
HasFloatDiff(p, jury_raw, team_raw) ==
  \E i \in 1..Len(Words(jury_raw)) :
    /\ Words(jury_raw)[i] # Words(team_raw)[i]
    /\ ComparedAsFloats(p, Words(jury_raw)[i], Words(team_raw)[i])
    /\ ~PassesAsFloats(p, Words(jury_raw)[i], Words(team_raw)[i])

\* C22 (amended): words that differ in case and are compared as numbers
\* under a float tolerance are no case change; the verdict for streams that
\* differ only in letter case is 43 if and only if such a pair of numbers
\* is out of tolerance, or case_sensitive is set and some other pair of
\* words differs.
C22_ToleratedUnlessFloats ==
  phase = "diff" =>
    /\ NeverReset(v)
    /\ (v.pc = "returned" /\ DifferOnlyInCase(v.jury.raw, v.team.raw)) =>
         /\ v.res.verdict = verdict_WA <=>
              \/ HasFloatDiff(v.p, v.jury.raw, v.team.raw)
              \/ v.p.case_sensitive /\ HasCaseChange(v.p, v.jury.raw, v.team.raw)
         /\ HasFloatDiff(v.p, v.jury.raw, v.team.raw) \/ Marched(v)
    /\ (v.pc = "returned" /\ DifferOnlyInWhitespace(v.jury.raw, v.team.raw)) =>
         /\ v.res.verdict = verdict_WA <=> v.p.space_change_sensitive
         /\ Marched(v)

\* Under case_sensitive and a float tolerance, 1E1 for 1e1 is accepted while
\* A for a in the same stream is a case change that fails.
C22_Witness ==
  /\ phase = "diff"
  /\ v.pc = "returned"
  /\ v.p.case_sensitive
  /\ v.p.compare_floats
  /\ v.jury.raw = <<"1", "e", "1", SP, "a">>
  /\ v.team.raw = <<"1", "E", "1", SP, "A">>
  /\ v.res.case_change # <<>>
  /\ Marched(v)
  /\ v.res.verdict = verdict_WA


\* The declared ranges of the integer reads of name n that logged a value.
LoggedRangesOf(n) ==
  {<<prog[i].call.low, prog[i].call.high>> :
     i \in {j \in 1..Len(prog) :
              /\ prog[j].call.name = n
              /\ \/ prog[j].call.op = "read_integer"
                 \/ prog[j].call.op = "read_integers" /\ prog[j].call.count > 0}}

\* C23: after successful reads of one name with varying declared ranges,
\* the declared low of its bounds record is the least low passed and the
\* declared high the greatest high passed.
C23_DeclaredUnion ==
  (phase = "single" /\ ~v.gen /\ v.exit # ret_WA) =>
    \A n \in DOMAIN v.bounds :
      /\ \A rg \in LoggedRangesOf(n) : v.bounds[n].low <= rg[1] /\ v.bounds[n].high >= rg[2]
      /\ \E rg \in LoggedRangesOf(n) : v.bounds[n].low = rg[1]
      /\ \E rg \in LoggedRangesOf(n) : v.bounds[n].high = rg[2]

\* C26: a name read with two different declared ranges ends the run as a
\* usage error: the process aborts and exits with neither 42 nor 43.
C26_InconsistentRangeAborts ==
  (phase = "single" /\ ~v.gen) =>
    \A n \in Names :
      Cardinality(LoggedRangesOf(n)) > 1 =>
        /\ v.status = "Aborted"
        /\ v.exit \notin {ret_AC, ret_WA}


VectorOps == {"read_integers", "read_strings"}

\* The validator with nothing recorded for the name.
Forgotten(x, name) ==
  [x EXCEPT !.statics.seen[name] = StaticInit.seen[name],
            !.statics.last_seen[name] = StaticInit.last_seen[name],
            !.statics.integers_seen[name] = StaticInit.integers_seen[name],
            !.statics.seen_str[name] = StaticInit.seen_str[name],
            !.statics.last_seen_str[name] = StaticInit.last_seen_str[name]]

\* What a call comes to: the end of the process or not, the position in
\* the input and the value returned.
Outcome(a) == <<a.x.status, a.x.exit, a.x.pos, a.r>>

\* The uniqueness set and the last-seen value of the type the call reads.
SeenBy(x, d) ==
  IF d.op = "read_integers" THEN <<x.statics.seen[d.name], x.statics.last_seen[d.name]>>
  ELSE <<x.statics.seen_str[d.name], x.statics.last_seen_str[d.name]>>

\* C24: in read mode a vector read comes to what it comes to with nothing
\* recorded for its name by earlier reads, and what it leaves recorded for
\* the name is what it leaves when it starts from nothing.
C24_VectorReadIndependent ==
  [][(phase = "tagged" /\ Len(prog') = Len(prog) + 1 /\ Last(prog').call.op \in VectorOps) =>
       Bind(Last(prog').call, LAMBDA d :
         /\ Outcome(R(v', Last(prog').ret)) = Outcome(Apply(Forgotten(v, d.name), d))
         /\ SeenBy(v', d) = SeenBy(Apply(Forgotten(v, d.name), d).x, d))]_vars

\* A Unique scalar read has returned a value and a Unique vector read that
\* holds the same value has returned after it.
C24_Witness ==
  /\ phase = "tagged"
  /\ Active(v)
  /\ Len(prog) = 3
  /\ prog[1].call.op \in {"read_integer", "read_string"}
  /\ prog[1].call.tag = Unique
  /\ prog[3].call.op \in VectorOps
  /\ prog[3].call.tag = Unique
  /\ prog[3].ret[1] = prog[1].ret

\* The successful scalar integer reads of name n tagged Unique | Increasing.
MergedReads(n) ==
  {i \in 1..Len(prog) :
     /\ Returned(i)
     /\ prog[i].call.op = "read_integer"
     /\ prog[i].call.name = n
     /\ prog[i].call.tag = Merge(Unique, Increasing)}

\* The successful vector reads of integers tagged Unique | Increasing.
MergedVectors ==
  {i \in 1..Len(prog) :
     /\ Returned(i)
     /\ prog[i].call.op = "read_integers"
     /\ prog[i].call.tag = Merge(Unique, Increasing)}

\* C30: reads tagged Unique | Increasing succeed only if the values, those
\* of scalar reads of one name and those of one vector, are pairwise
\* distinct and each value is at least the one before it.
C30_MergedTagEnforcesAll ==
  phase = "tagged" =>
    /\ \A n \in Names : \A i, j \in MergedReads(n) :
         i < j => prog[i].ret # prog[j].ret /\ prog[i].ret <= prog[j].ret
    /\ \A k \in MergedVectors : \A i, j \in 1..Len(prog[k].ret) :
         i < j => prog[k].ret[i] # prog[k].ret[j] /\ prog[k].ret[i] <= prog[k].ret[j]


\* The validator as it is for a caller of its own reads: its stream and
\* whether the process goes on.
OwnState(x) == <<x.pos, x.status, x.exit>>

\* C25: a read through one validator changes neither the uniqueness and
\* last-seen state of the other validator nor what a tagged read of the
\* same name through the other comes to.
C25_StatePerInstance ==
  [][(phase = "two" /\ Len(prog') = Len(prog) + 1) =>
       IF Last(prog').via = 1
         THEN /\ v2'.statics = v2.statics
              /\ \A d \in TwoCalls : Outcome(Apply(v2', d)) = Outcome(Apply(v2, d))
         ELSE /\ v'.statics = v.statics
              /\ \A d \in TwoCalls : Outcome(Apply(v', d)) = Outcome(Apply(v, d))]_vars

\* C27: in generator mode every value that read_integer(name, low, high) with
\* low <= high emits lies in [low, high], under the default uniform sampler
\* and under a registered parameter expression.
C27_GeneratedInRange ==
  phase = "param" =>
    \A i \in 1..Len(prog) :
      prog[i].call.op = "read_integer" /\ prog[i].call.low <= prog[i].call.high
        => prog[i].call.low <= prog[i].ret /\ prog[i].ret <= prog[i].call.high

\* The bytes that a step has consumed from the input.
Consumed == SubSeq(v.inp, v.pos + 1, v'.pos)

\* C28: in read mode a successful read_line(name, min, max, chars) has consumed
\* exactly the returned string followed by one '\n', the length of the string
\* lies in [min, max] and its characters are in chars when chars is not empty;
\* under WS=true with min > 0 the call ends with WA when the next byte is
\* whitespace.
C28_ReadLine ==
  [][StepOf("read_line") =>
       /\ Active(v') =>
            /\ Consumed = Last(prog').ret \o <<NL>>
            /\ Last(prog').call.low <= Len(Last(prog').ret)
            /\ Len(Last(prog').ret) <= Last(prog').call.high
            /\ ok_char(Last(prog').call.text, Last(prog').ret)
       /\ (v.ws /\ Last(prog').call.low > 0 /\ ~AtEnd(v) /\ isspace(v.inp[v.pos + 1]))
            => ExitedWA(v')]_vars

\* The characters of a token stream that next() has not yet passed.
Left(ts) == Len(ts.last) + Len(ts.todo)

\* next() has moved the stream a to b, one token on.
Advanced(a, b) == ~is_eof(a.last) /\ b = next(a) /\ Left(b) < Left(a)

\* The number of next() calls that take a stream to its end.
RECURSIVE CallsToEof(_)
CallsToEof(ts) == IF is_eof(ts.last) THEN 0 ELSE 1 + CallsToEof(next(ts))

\* C29: check() of the diff validator terminates: each iteration of the
\* lockstep loop and of the two trailing loops returns or advances one of the
\* two token streams by a token, a stream is at its end after no more next()
\* calls than it has characters left, check returns in the end, and the
\* verdict it returns is 42 or 43.
C29_CheckTerminates ==
  /\ [][(CompareTokens \/ TeamHasMore \/ JuryHasMore) =>
          \/ v'.pc = "returned"
          \/ Advanced(v.jury, v'.jury)
          \/ Advanced(v.team, v'.team)]_vars
  /\ [](phase = "diff_steps" =>
          /\ CallsToEof(v.jury) <= Left(v.jury)
          /\ CallsToEof(v.team) <= Left(v.team)
          /\ (v.pc = "returned" => v.exit \in {verdict_AC, verdict_WA}))
  /\ <>(v.pc = "returned")

\* A run through all three loops: the streams differ in whitespace before,
\* between and after the tokens, and check has returned 42 with both at
\* their end.
C29_Witness ==
  /\ phase = "diff_steps"
  /\ v.pc = "returned"
  /\ v.exit = verdict_AC
  /\ v.jury.raw = <<"a", SP>>
  /\ v.team.raw = <<SP, "A">>
  /\ is_eof(v.jury.last) /\ is_eof(v.team.last)

====
